---- MODULE Spec2Model ----
(***************************************************************************)
(* A model of the SwarmRoute router (package swarmroute, swarmroute.go):   *)
(* the pheromone tables, AddService, PickEndpoint, ReportResult,           *)
(* evaporateOnce, the tuning setters and PheromoneSnapshot.                *)
(*                                                                         *)
(* float64 values are modelled as exact rationals <<n, d>> in lowest terms *)
(* with d > 0: the arithmetic of the code is carried out without rounding. *)
(* NaN and the infinities are outside the model (no input of the model     *)
(* makes latency + 1e-6 equal to zero).                                    *)
(*                                                                         *)
(* Spec is the router used by one caller, every operation one step (each   *)
(* runs under sr.mu from its first line to its return).  SpecConc is the   *)
(* router used by several goroutines, one memory access per step.          *)
(***************************************************************************)
EXTENDS Integers, Sequences, FiniteSets, TLC

(***************************************************************************)
(* Rational arithmetic standing for the float64 operators of the code.     *)
(***************************************************************************)
Abs(n) == IF n < 0 THEN -n ELSE n

\* Euclid's algorithm on a pair of naturals
GCDOf[p \in Nat \X Nat] == IF p[2] = 0 THEN p[1] ELSE GCDOf[<<p[2], p[1] % p[2]>>]

GCD(a, b) == GCDOf[<<a, b>>]

\* The operators below are functions of their evaluated arguments, so that an
\* operand is computed once however often the operator refers to it.
Fraction == Int \X Int

\* the rational n/d (d # 0) in lowest terms with a positive denominator
ROf[p \in Fraction] ==
    LET s == IF p[2] < 0 THEN -1 ELSE 1
        g == GCD(Abs(p[1]), Abs(p[2]))
    IN  <<(s * p[1]) \div g, (s * p[2]) \div g>>

R(n, d) == ROf[<<n, d>>]

Zero == <<0, 1>>
One == <<1, 1>>

\* x + y
RAddOf[p \in Fraction \X Fraction] ==
    LET x == p[1]
        y == p[2]
        g == GCD(x[2], y[2])
        l == (x[2] \div g) * y[2]
    IN  R(x[1] * (l \div x[2]) + y[1] * (l \div y[2]), l)

RAdd(x, y) == RAddOf[<<x, y>>]

\* -x
RNegOf[x \in Fraction] == <<-x[1], x[2]>>

\* x - y
RSub(x, y) == RAdd(x, RNegOf[y])

\* x * y
RMulOf[p \in Fraction \X Fraction] ==
    LET x == p[1]
        y == p[2]
        g1 == GCD(Abs(x[1]), y[2])
        g2 == GCD(Abs(y[1]), x[2])
    IN  IF x[1] = 0 \/ y[1] = 0 THEN Zero
        ELSE <<(x[1] \div g1) * (y[1] \div g2), (x[2] \div g2) * (y[2] \div g1)>>

RMul(x, y) == RMulOf[<<x, y>>]

\* 1 / y for y # 0
RInvOf[y \in Fraction] == IF y[1] < 0 THEN <<-y[2], -y[1]>> ELSE <<y[2], y[1]>>

\* x / y for y # 0
RDiv(x, y) == RMul(x, RInvOf[y])

\* x < y and x <= y
RLtOf[p \in Fraction \X Fraction] ==
    LET x == p[1]
        y == p[2]
        g == GCD(x[2], y[2])
    IN  x[1] * (y[2] \div g) < y[1] * (x[2] \div g)

RLt(x, y) == RLtOf[<<x, y>>]

RLeOf[p \in Fraction \X Fraction] ==
    LET x == p[1]
        y == p[2]
        g == GCD(x[2], y[2])
    IN  x[1] * (y[2] \div g) <= y[1] * (x[2] \div g)

RLe(x, y) == RLeOf[<<x, y>>]

(***************************************************************************)
(* Bounds of the model.                                                    *)
(***************************************************************************)
\* calls of all operations in one run
MaxCalls == 4
\* calls of AddService in one run
MaxAdds == 2
\* calls of a setter (or a direct write of evaporationRate) in one run
MaxSets == 1
\* calls of ReportResult in one run
MaxReports == 2
\* calls of evaporateOnce in one run
MaxEvaps == 1
\* calls of PickEndpoint in one run
MaxPicks == 2
\* calls of PheromoneSnapshot in one run
MaxSnapshots == 1
\* writes of the caller to a snapshot it was given, in one run
MaxWrites == 1

ServiceNames == {"s1", "s2"}
\* the service the reports name (registered or not)
ReportedServices == {"s1"}
Addresses == {"A", "B"}
\* the address lists AddService is called with
EndpointLists == {<<>>, <<"A", "B">>, <<"A", "A">>}
Channels == {"latency", "error"}

\* the 1e-6 guard of the positive update
Epsilon == R(1, 1000000)
\* latencies reported: a negative one, and a fast and a slow one for which
\* latency + 1e-6 is 1/2 and 2 seconds
LatNegative == R(-1000001, 1000000)
LatFast == R(499999, 1000000)
LatSlow == R(1999999, 1000000)
\* a negative latency for which posReinforce / (latency + 1e-6) is -0.08
LatFarNegative == R(-12500001, 1000000)
\* the outcomes reported, <<latency, success>>
Outcomes == {<<LatNegative, TRUE>>, <<LatFast, TRUE>>, <<LatSlow, TRUE>>,
             <<LatFast, FALSE>>, <<LatFarNegative, TRUE>>}
\* arguments the setters are called with: below, inside and above [0, 1]
RateArgs == {R(-1, 1), R(1, 2), R(2, 1)}
WeightArgs == {R(-1, 1), R(1, 2)}
\* SetPosNegScale is called with the same value for both scales
ScaleArgs == {R(-1, 1), R(2, 1)}
\* slow thresholds: a negative one, one second, and the slow latency itself
ThresholdArgs == {R(-1, 1), One, LatSlow}
EveryNArgs == {-1, 1, 2}
\* SetPeriodicExploration is called with both arguments negative, or neither
ExplorationArgs ==
    {p \in EveryNArgs \X WeightArgs : (p[1] < 0) <=> (p[2][1] < 0)}
\* values written to the evaporationRate field by the package's tests
EvaporationRates == {Zero, R(1, 2)}
\* values of rand.Float64(), in [0, 1)
Draws == {Zero, R(1, 2), R(9, 10)}

VARIABLES
    services,            \* map[string][]*Endpoint
    pickCount,           \* map[string]int
    evaporationRate, posReinforce, negReinforce, reqEvapRate, baseWeight,
    exploreEveryN, exploreNegThreshold, slowThresholdSec, alphaBad,
    snapshot,            \* the value the last PheromoneSnapshot call returned
    last,                \* the last operation: its name, arguments and result
    prev,                \* the router state before the last operation
    prevView,            \* what the snapshot showed before the last operation
    calls                \* operations called so far, by kind, and the picks
                         \* that returned an endpoint, by service

\* the goroutines of the router in concurrent use
VARIABLES
    mu,                  \* sync.RWMutex: the goroutine writing, the goroutines reading
    pc,                  \* where each goroutine is in its call
    prog,                \* the memory writes each writer has still to do under mu
    rd,                  \* the locals of the goroutine in PheromoneSnapshot
    pk,                  \* the locals of each goroutine in PickEndpoint
    destroyed,           \* the program has let go of the router
    lastCommitted,       \* the table as the last complete operation left it
    committed            \* the committed tables since the snapshot call began

config == <<evaporationRate, posReinforce, negReinforce, reqEvapRate, baseWeight,
            exploreEveryN, exploreNegThreshold, slowThresholdSec, alphaBad>>
router == <<services, pickCount, config>>
conc == <<mu, pc, prog, rd, pk, destroyed, lastCommitted, committed>>
vars == <<router, snapshot, last, prev, prevView, calls, conc>>

\* the router's fields as one record
State ==
    [services |-> services, pickCount |-> pickCount,
     evaporationRate |-> evaporationRate, posReinforce |-> posReinforce,
     negReinforce |-> negReinforce, reqEvapRate |-> reqEvapRate,
     baseWeight |-> baseWeight, exploreEveryN |-> exploreEveryN,
     exploreNegThreshold |-> exploreNegThreshold,
     slowThresholdSec |-> slowThresholdSec, alphaBad |-> alphaBad]

NewPheromone == [Pos |-> Zero, Neg |-> Zero]

\* two goroutines calling the router, go sr.evaporateLoop(), and a monitoring
\* goroutine
Callers == {"caller", "worker"}
Writers == Callers \cup {"evaporateLoop"}
\* in the concurrent runs the first of them registers the services and sets
\* the parameters, the second picks endpoints, and both report results
Configurers == {"caller"}
Pickers == {"worker"}
Threads == Writers \cup {"monitor"}
NoThread == "none"
NoLocals == [todo |-> {}, svc |-> "", eps |-> <<>>, i |-> 0, pos |-> Zero,
             svcMap |-> <<>>, snapshot |-> <<>>]
NoPick == [service |-> "", snaps |-> <<>>, baseWeight |-> Zero, addr |-> "",
           err |-> FALSE]

\* a faulty variant: forced exploration is on from the start
InitExploring ==
    /\ services = <<>>
    /\ pickCount = <<>>
    /\ evaporationRate = R(5, 100)
    /\ posReinforce = One
    /\ negReinforce = One
    /\ reqEvapRate = Zero
    /\ baseWeight = R(10, 100)
    /\ exploreEveryN = 1
    /\ exploreNegThreshold = R(3, 1)
    /\ slowThresholdSec = Zero
    /\ alphaBad = Zero
    /\ snapshot = <<>>
    /\ last = [op |-> "NewSwarmRoute"]
    /\ prev = State
    /\ prevView = <<>>
    /\ calls = [add |-> 0, set |-> 0, report |-> 0, evap |-> 0, pick |-> 0,
                snapshot |-> 0, write |-> 0,
                picked |-> [s \in ServiceNames |-> 0]]
    /\ mu = [writer |-> NoThread, readers |-> {}]
    /\ pc = [t \in Threads |-> "idle"]
    /\ prog = [t \in Writers |-> <<>>]
    /\ rd = NoLocals
    /\ pk = [t \in Callers |-> NoPick]
    /\ destroyed = FALSE
    /\ lastCommitted = <<>>
    /\ committed = {}

\* NewSwarmRoute: no service, no pick counter, the default parameters
Init ==
    /\ services = <<>>
    /\ pickCount = <<>>
    /\ evaporationRate = R(5, 100)
    /\ posReinforce = One
    /\ negReinforce = One
    /\ reqEvapRate = Zero
    /\ baseWeight = R(10, 100)
    /\ exploreEveryN = 0
    /\ exploreNegThreshold = R(3, 1)
    /\ slowThresholdSec = Zero
    /\ alphaBad = Zero
    /\ snapshot = <<>>
    /\ last = [op |-> "NewSwarmRoute"]
    /\ prev = State
    /\ prevView = <<>>
    /\ calls = [add |-> 0, set |-> 0, report |-> 0, evap |-> 0, pick |-> 0,
                snapshot |-> 0, write |-> 0,
                picked |-> [s \in ServiceNames |-> 0]]
    /\ mu = [writer |-> NoThread, readers |-> {}]
    /\ pc = [t \in Threads |-> "idle"]
    /\ prog = [t \in Writers |-> <<>>]
    /\ rd = NoLocals
    /\ pk = [t \in Callers |-> NoPick]
    /\ destroyed = FALSE
    /\ lastCommitted = <<>>
    /\ committed = {}

\* the bounds on the calls of one run
MayCall(kind) ==
    /\ calls[kind] < CASE kind = "add" -> MaxAdds
                        [] kind = "set" -> MaxSets
                        [] kind = "report" -> MaxReports
                        [] kind = "evap" -> MaxEvaps
                        [] kind = "pick" -> MaxPicks
                        [] kind = "snapshot" -> MaxSnapshots
                        [] kind = "write" -> MaxWrites
    /\ calls.add + calls.set + calls.report + calls.evap + calls.pick
          + calls.snapshot + calls.write < MaxCalls

\* the (pos, neg) pair of endpoint i of service s, as the selector reads it
Pair(svcs, s, i) ==
    [Pos |-> svcs[s][i].Pheromones["latency"].Pos,
     Neg |-> svcs[s][i].Pheromones["error"].Neg]

\* What the holder of a snapshot reads in one of its entries.  An entry is a
\* Pheromone value; an entry that were a pointer into the router's tables (Ref)
\* would show whatever the router holds there now.
Read(e) ==
    IF "Ref" \in DOMAIN e
    THEN IF e.Ref[1] \in DOMAIN services /\ e.Ref[2] <= Len(services[e.Ref[1]])
         THEN Pair(services, e.Ref[1], e.Ref[2])
         ELSE NewPheromone
    ELSE e

View(snap) == [s \in DOMAIN snap |-> [a \in DOMAIN snap[s] |-> Read(snap[s][a])]]

\* the calls so far after the operation op of this kind
Counted(op, kind) ==
    IF op.op = "PickEndpoint" /\ ~op.err
    THEN [calls EXCEPT ![kind] = @ + 1, !.picked[op.service] = @ + 1]
    ELSE [calls EXCEPT ![kind] = @ + 1]

\* what every operation records
Record(op, kind) ==
    /\ last' = op
    /\ prev' = State
    /\ prevView' = View(snapshot)
    /\ calls' = Counted(op, kind)
    /\ UNCHANGED conc

(***************************************************************************)
(* AddService                                                              *)
(***************************************************************************)
NewEndpoints(endpoints) ==
    [i \in 1..Len(endpoints) |->
        [Address |-> endpoints[i],
         Pheromones |-> [c \in Channels |-> NewPheromone]]]

\* a faulty variant: the new endpoints are appended to those registered before
AddServiceAppend(name, endpoints) ==
    /\ MayCall("add")
    /\ services' = (name :> ((IF name \in DOMAIN services THEN services[name] ELSE <<>>)
                                \o NewEndpoints(endpoints))) @@ services
    /\ UNCHANGED <<pickCount, config, snapshot>>
    /\ Record([op |-> "AddService", name |-> name, endpoints |-> endpoints], "add")

\* a faulty variant: registering a service drops its pick counter
AddServiceResetsCount(name, endpoints) ==
    /\ MayCall("add")
    /\ services' = (name :> NewEndpoints(endpoints)) @@ services
    /\ pickCount' = [s \in DOMAIN pickCount \ {name} |-> pickCount[s]]
    /\ UNCHANGED <<config, snapshot>>
    /\ Record([op |-> "AddService", name |-> name, endpoints |-> endpoints], "add")

AddService(name, endpoints) ==
    /\ MayCall("add")
    /\ services' = (name :> NewEndpoints(endpoints)) @@ services
    /\ UNCHANGED <<pickCount, config, snapshot>>
    /\ Record([op |-> "AddService", name |-> name, endpoints |-> endpoints], "add")

(***************************************************************************)
(* evaporateOnce                                                           *)
(***************************************************************************)
\* a faulty variant: only the latency channel evaporates
DecayLatencyOnly(svcs, factor) ==
    [s \in DOMAIN svcs |->
        [i \in 1..Len(svcs[s]) |->
            [svcs[s][i] EXCEPT
                !.Pheromones["latency"] = [Pos |-> RMul(@.Pos, factor),
                                           Neg |-> RMul(@.Neg, factor)]]]]

\* every pheromone of every endpoint of every service multiplied by factor
Decay(svcs, factor) ==
    [s \in DOMAIN svcs |->
        [i \in 1..Len(svcs[s]) |->
            [Address |-> svcs[s][i].Address,
             Pheromones |->
                [c \in DOMAIN svcs[s][i].Pheromones |->
                    [Pos |-> RMul(svcs[s][i].Pheromones[c].Pos, factor),
                     Neg |-> RMul(svcs[s][i].Pheromones[c].Neg, factor)]]]]]

evaporateOnce ==
    /\ MayCall("evap")
    /\ services' = Decay(services, RSub(One, evaporationRate))
    /\ UNCHANGED <<pickCount, config, snapshot>>
    /\ Record([op |-> "evaporateOnce"], "evap")

(***************************************************************************)
(* ReportResult                                                            *)
(***************************************************************************)
\* the per-request evaporation that opens every report
Prelude(svcs) ==
    IF RLt(Zero, reqEvapRate) THEN Decay(svcs, RSub(One, reqEvapRate)) ELSE svcs

\* the index of the first endpoint of eps with this address, 0 when there is none
FirstIndex(eps, endpoint) ==
    IF \E i \in 1..Len(eps) : eps[i].Address = endpoint
    THEN CHOOSE i \in 1..Len(eps) :
            /\ eps[i].Address = endpoint
            /\ \A j \in 1..(i - 1) : eps[j].Address # endpoint
    ELSE 0

\* a faulty variant: a latency equal to the threshold is slow
isSlowInclusive(latency) ==
    RLt(Zero, slowThresholdSec) /\ RLe(slowThresholdSec, latency)

isSlow(latency) == RLt(Zero, slowThresholdSec) /\ RLt(slowThresholdSec, latency)

\* a faulty variant: the forgiveness of a slow success comes before the deposit
BadUpdateForgivesFirst(ep, success) ==
    LET neg1 == IF success
                THEN RMul(ep.Pheromones["error"].Neg, RSub(One, evaporationRate))
                ELSE ep.Pheromones["error"].Neg
        pos1 == IF RLt(Zero, alphaBad)
                THEN RMul(ep.Pheromones["latency"].Pos, RSub(One, alphaBad))
                ELSE ep.Pheromones["latency"].Pos
    IN  [ep EXCEPT !.Pheromones["error"].Neg = RAdd(neg1, negReinforce),
                   !.Pheromones["latency"].Pos = pos1]

\* a faulty variant: a bad event deposits no negative pheromone
BadUpdateNoDeposit(ep, success) ==
    LET neg1 == ep.Pheromones["error"].Neg
        pos1 == IF RLt(Zero, alphaBad)
                THEN RMul(ep.Pheromones["latency"].Pos, RSub(One, alphaBad))
                ELSE ep.Pheromones["latency"].Pos
        neg2 == IF success THEN RMul(neg1, RSub(One, evaporationRate)) ELSE neg1
    IN  [ep EXCEPT !.Pheromones["error"].Neg = neg2,
                   !.Pheromones["latency"].Pos = pos1]

\* a failure or a too-slow success
BadUpdate(ep, success) ==
    LET neg1 == RAdd(ep.Pheromones["error"].Neg, negReinforce)
        pos1 == IF RLt(Zero, alphaBad)
                THEN RMul(ep.Pheromones["latency"].Pos, RSub(One, alphaBad))
                ELSE ep.Pheromones["latency"].Pos
        neg2 == IF success THEN RMul(neg1, RSub(One, evaporationRate)) ELSE neg1
    IN  [ep EXCEPT !.Pheromones["error"].Neg = neg2,
                   !.Pheromones["latency"].Pos = pos1]

\* a faulty variant: a good event forgives no error pheromone
GoodUpdateKeepsNeg(ep, latency) ==
    LET delta == RDiv(posReinforce, RAdd(latency, Epsilon))
    IN  [ep EXCEPT !.Pheromones["latency"].Pos = RAdd(@, delta)]

\* a faulty variant: the deposit grows with the latency
GoodUpdateProportional(ep, latency) ==
    LET delta == RMul(posReinforce, RAdd(latency, Epsilon))
    IN  [ep EXCEPT !.Pheromones["latency"].Pos = RAdd(@, delta),
                   !.Pheromones["error"].Neg = RMul(@, RSub(One, evaporationRate))]

\* a fast, successful call
GoodUpdate(ep, latency) ==
    LET delta == RDiv(posReinforce, RAdd(latency, Epsilon))
    IN  [ep EXCEPT !.Pheromones["latency"].Pos = RAdd(@, delta),
                   !.Pheromones["error"].Neg = RMul(@, RSub(One, evaporationRate))]

\* a faulty variant: every endpoint with the reported address is updated
ReinforceEveryMatch(svcs, service, endpoint, latency, success) ==
    IF service \notin DOMAIN svcs THEN svcs
    ELSE [svcs EXCEPT ![service] =
            [i \in 1..Len(@) |->
                IF @[i].Address # endpoint THEN @[i]
                ELSE IF ~success \/ isSlow(latency)
                     THEN BadUpdate(@[i], success)
                     ELSE GoodUpdate(@[i], latency)]]

\* a faulty variant: the last endpoint with the reported address is updated
ReinforceLastMatch(svcs, service, endpoint, latency, success) ==
    IF service \notin DOMAIN svcs THEN svcs
    ELSE LET match == {i \in 1..Len(svcs[service]) :
                          svcs[service][i].Address = endpoint}
         IN  IF match = {} THEN svcs
             ELSE [svcs EXCEPT ![service][CHOOSE i \in match :
                                              \A j \in match : j <= i] =
                      IF ~success \/ isSlow(latency)
                      THEN BadUpdate(@, success)
                      ELSE GoodUpdate(@, latency)]

\* a faulty variant: the updated endpoint moves to the front of the list
ReinforceMoveToFront(svcs, service, endpoint, latency, success) ==
    IF service \notin DOMAIN svcs THEN svcs
    ELSE LET i == FirstIndex(svcs[service], endpoint)
         IN  IF i = 0 THEN svcs
             ELSE [svcs EXCEPT ![service] =
                      <<IF ~success \/ isSlow(latency)
                        THEN BadUpdate(@[i], success)
                        ELSE GoodUpdate(@[i], latency)>>
                      \o SubSeq(@, 1, i - 1) \o SubSeq(@, i + 1, Len(@))]

\* a faulty variant: an address that is not found updates the first endpoint
ReinforceFirstOnMiss(svcs, service, endpoint, latency, success) ==
    IF service \notin DOMAIN svcs THEN svcs
    ELSE LET found == FirstIndex(svcs[service], endpoint)
             i == IF found = 0 /\ Len(svcs[service]) > 0 THEN 1 ELSE found
         IN  IF i = 0 THEN svcs
             ELSE [svcs EXCEPT ![service][i] =
                      IF ~success \/ isSlow(latency)
                      THEN BadUpdate(@, success)
                      ELSE GoodUpdate(@, latency)]

\* the lookup of the service and of the endpoint, and the update of that endpoint
Reinforce(svcs, service, endpoint, latency, success) ==
    IF service \notin DOMAIN svcs THEN svcs
    ELSE LET i == FirstIndex(svcs[service], endpoint)
         IN  IF i = 0 THEN svcs
             ELSE [svcs EXCEPT ![service][i] =
                      IF ~success \/ isSlow(latency)
                      THEN BadUpdate(@, success)
                      ELSE GoodUpdate(@, latency)]

\* a faulty variant: the per-request evaporation follows the update
ReportResultDecayLast(service, endpoint, latency, success) ==
    /\ MayCall("report")
    /\ services' = Prelude(Reinforce(services, service, endpoint, latency, success))
    /\ UNCHANGED <<pickCount, config, snapshot>>
    /\ Record([op |-> "ReportResult", service |-> service, endpoint |-> endpoint,
               latency |-> latency, success |-> success], "report")

ReportResult(service, endpoint, latency, success) ==
    /\ MayCall("report")
    /\ services' = Reinforce(Prelude(services), service, endpoint, latency, success)
    /\ UNCHANGED <<pickCount, config, snapshot>>
    /\ Record([op |-> "ReportResult", service |-> service, endpoint |-> endpoint,
               latency |-> latency, success |-> success], "report")

(***************************************************************************)
(* The setters                                                             *)
(***************************************************************************)
\* if x < 0 { x = 0 }
ClampLow(x) == IF RLt(x, Zero) THEN Zero ELSE x
\* a faulty variant: no upper bound
ClampUnitOpen(x) == ClampLow(x)

\* if x < 0 { x = 0 }; if x > 1 { x = 1 }
ClampUnit(x) == IF RLt(One, ClampLow(x)) THEN One ELSE ClampLow(x)

SetRequestEvapRate(r) ==
    /\ MayCall("set")
    /\ reqEvapRate' = ClampUnit(r)
    /\ UNCHANGED <<services, pickCount, evaporationRate, posReinforce, negReinforce,
                   baseWeight, exploreEveryN, exploreNegThreshold, slowThresholdSec,
                   alphaBad, snapshot>>
    /\ Record([op |-> "SetRequestEvapRate", r |-> r], "set")

SetBaseWeight(w) ==
    /\ MayCall("set")
    /\ baseWeight' = ClampLow(w)
    /\ UNCHANGED <<services, pickCount, evaporationRate, posReinforce, negReinforce,
                   reqEvapRate, exploreEveryN, exploreNegThreshold, slowThresholdSec,
                   alphaBad, snapshot>>
    /\ Record([op |-> "SetBaseWeight", w |-> w], "set")

SetPosNegScale(kpos, kneg) ==
    /\ MayCall("set")
    /\ posReinforce' = ClampLow(kpos)
    /\ negReinforce' = ClampLow(kneg)
    /\ UNCHANGED <<services, pickCount, evaporationRate, reqEvapRate, baseWeight,
                   exploreEveryN, exploreNegThreshold, slowThresholdSec, alphaBad,
                   snapshot>>
    /\ Record([op |-> "SetPosNegScale", kpos |-> kpos, kneg |-> kneg], "set")

\* a faulty variant: a new exploration period starts the pick counters afresh
SetPeriodicExplorationResetsCount(everyN, negThreshold) ==
    /\ MayCall("set")
    /\ exploreEveryN' = IF everyN < 0 THEN 0 ELSE everyN
    /\ exploreNegThreshold' = ClampLow(negThreshold)
    /\ pickCount' = <<>>
    /\ UNCHANGED <<services, evaporationRate, posReinforce, negReinforce,
                   reqEvapRate, baseWeight, slowThresholdSec, alphaBad, snapshot>>
    /\ Record([op |-> "SetPeriodicExploration", everyN |-> everyN,
               negThreshold |-> negThreshold], "set")

SetPeriodicExploration(everyN, negThreshold) ==
    /\ MayCall("set")
    /\ exploreEveryN' = IF everyN < 0 THEN 0 ELSE everyN
    /\ exploreNegThreshold' = ClampLow(negThreshold)
    /\ UNCHANGED <<services, pickCount, evaporationRate, posReinforce, negReinforce,
                   reqEvapRate, baseWeight, slowThresholdSec, alphaBad, snapshot>>
    /\ Record([op |-> "SetPeriodicExploration", everyN |-> everyN,
               negThreshold |-> negThreshold], "set")

SetSlowThresholdSec(threshold) ==
    /\ MayCall("set")
    /\ slowThresholdSec' = ClampLow(threshold)
    /\ UNCHANGED <<services, pickCount, evaporationRate, posReinforce, negReinforce,
                   reqEvapRate, baseWeight, exploreEveryN, exploreNegThreshold,
                   alphaBad, snapshot>>
    /\ Record([op |-> "SetSlowThresholdSec", threshold |-> threshold], "set")

SetBadPosDecay(alpha) ==
    /\ MayCall("set")
    /\ alphaBad' = ClampUnit(alpha)
    /\ UNCHANGED <<services, pickCount, evaporationRate, posReinforce, negReinforce,
                   reqEvapRate, baseWeight, exploreEveryN, exploreNegThreshold,
                   slowThresholdSec, snapshot>>
    /\ Record([op |-> "SetBadPosDecay", alpha |-> alpha], "set")

\* the package's tests assign the unexported field: sr.evaporationRate = 0.5
WriteEvaporationRate(r) ==
    /\ MayCall("set")
    /\ evaporationRate' = r
    /\ UNCHANGED <<services, pickCount, posReinforce, negReinforce, reqEvapRate,
                   baseWeight, exploreEveryN, exploreNegThreshold, slowThresholdSec,
                   alphaBad, snapshot>>
    /\ Record([op |-> "WriteEvaporationRate", r |-> r], "set")

(***************************************************************************)
(* PickEndpoint                                                            *)
(***************************************************************************)
\* a faulty variant: a pick counts for every service that has a counter
IncrementAll(counts, service) ==
    [s \in DOMAIN counts \cup {service} |->
        (IF s \in DOMAIN counts THEN counts[s] ELSE 0) + 1]

\* a faulty variant: the counter of a service is set on its first pick only
IncrementOnce(counts, service) ==
    (service :> (IF service \in DOMAIN counts THEN counts[service] ELSE 1))
        @@ counts

\* sr.pickCount[service]++ on a Go map: a missing key counts from 0
Increment(counts, service) ==
    (service :> (IF service \in DOMAIN counts THEN counts[service] ELSE 0) + 1)
        @@ counts

\* a faulty variant: the terrible endpoints stay candidates
CandidatesAll(eps) == eps

\* the endpoints that are not terrible, all of them when every one is
Candidates(eps) ==
    LET ok == SelectSeq(eps, LAMBDA ep :
                  RLe(ep.Pheromones["error"].Neg, exploreNegThreshold))
    IN  IF Len(ok) = 0 THEN eps ELSE ok

\* weight := (pos + baseWeight) / (1.0 + neg), per endpoint
Weights(eps) ==
    [i \in 1..Len(eps) |->
        RDiv(RAdd(eps[i].Pheromones["latency"].Pos, baseWeight),
             RAdd(One, eps[i].Pheromones["error"].Neg))]

\* cum after i rounds of the sampling loop; the total is Cum(weights, Len(weights))
RECURSIVE Cum(_, _)
Cum(weights, i) == IF i = 0 THEN Zero ELSE RAdd(Cum(weights, i - 1), weights[i])

\* a faulty variant: the loop tests r < cum
SampleStrict(weights, u) ==
    LET r == RMul(u, Cum(weights, Len(weights)))
        hit == {i \in 1..Len(weights) : RLt(r, Cum(weights, i))}
    IN  IF hit = {} THEN Len(weights)
        ELSE CHOOSE i \in hit : \A j \in hit : i <= j

\* a faulty variant: the loop returns the endpoint after the one that crossed r
SampleOffByOne(weights, u) ==
    LET r == RMul(u, Cum(weights, Len(weights)))
        hit == {i \in 1..Len(weights) : RLe(r, Cum(weights, i))}
        first == CHOOSE i \in hit : \A j \in hit : i <= j
    IN  IF hit = {} \/ first = Len(weights) THEN Len(weights) ELSE first + 1

\* a faulty variant: the loop runs on after the first hit
SampleLastHit(weights, u) ==
    LET r == RMul(u, Cum(weights, Len(weights)))
        hit == {i \in 1..Len(weights) : RLe(r, Cum(weights, i))}
    IN  IF hit = {} THEN Len(weights)
        ELSE CHOOSE i \in hit : \A j \in hit : j <= i

\* the index the sampling loop returns for the draw u of rand.Float64()
Sample(weights, u) ==
    LET r == RMul(u, Cum(weights, Len(weights)))
        hit == {i \in 1..Len(weights) : RLe(r, Cum(weights, i))}
    IN  IF hit = {} THEN Len(weights)
        ELSE CHOOSE i \in hit : \A j \in hit : i <= j

\* eps, ok := sr.services[service]; !ok || len(eps) == 0
NoEndpoints(service) ==
    IF service \in DOMAIN services THEN Len(services[service]) = 0 ELSE TRUE

\* a faulty variant: the empty address is returned without the failure
PickFailedSilently(service) ==
    [op |-> "PickEndpoint", service |-> service, path |-> "none", addr |-> "",
     err |-> FALSE]

\* return "", fmt.Errorf("no endpoints for service %s", service)
PickFailed(service) ==
    [op |-> "PickEndpoint", service |-> service, path |-> "none", addr |-> "",
     err |-> TRUE]

\* return addr, nil
Picked(service, path, addr) ==
    [op |-> "PickEndpoint", service |-> service, path |-> path, addr |-> addr,
     err |-> FALSE]

\* return snaps[i].addr, nil: the weighted path, with the value of
\* rand.Float64() it drew and the index i
PickedByDraw(service, eps, i, u) ==
    [draw |-> u, index |-> i] @@ Picked(service, "weighted", eps[i].Address)

\* doExplore, read after the increment of the counter
doExplore(counts, service) ==
    exploreEveryN > 0 /\ counts[service] % exploreEveryN = 0

\* a faulty variant: the counter is incremented before the lookup
PickEndpointCountsFailures(service) ==
    /\ MayCall("pick")
    /\ UNCHANGED <<services, config, snapshot>>
    /\ \/ \* no endpoints
          /\ NoEndpoints(service)
          /\ pickCount' = Increment(pickCount, service)
          /\ Record(PickFailed(service), "pick")
       \/ \* periodic forced exploration: idx := rand.Intn(len(candidates))
          /\ ~NoEndpoints(service)
          /\ pickCount' = Increment(pickCount, service)
          /\ doExplore(pickCount', service)
          /\ \E idx \in 1..Len(Candidates(services[service])) :
                Record(Picked(service, "explore",
                              Candidates(services[service])[idx].Address), "pick")
       \/ \* weighted random: r := rand.Float64() * total
          /\ ~NoEndpoints(service)
          /\ pickCount' = Increment(pickCount, service)
          /\ ~doExplore(pickCount', service)
          /\ \E u \in Draws :
                Record(PickedByDraw(service, services[service],
                                    Sample(Weights(services[service]), u), u),
                       "pick")

PickEndpoint(service) ==
    /\ MayCall("pick")
    /\ UNCHANGED <<services, config, snapshot>>
    /\ \/ \* no endpoints
          /\ NoEndpoints(service)
          /\ UNCHANGED pickCount
          /\ Record(PickFailed(service), "pick")
       \/ \* periodic forced exploration: idx := rand.Intn(len(candidates))
          /\ ~NoEndpoints(service)
          /\ pickCount' = Increment(pickCount, service)
          /\ doExplore(pickCount', service)
          /\ \E idx \in 1..Len(Candidates(services[service])) :
                Record(Picked(service, "explore",
                              Candidates(services[service])[idx].Address), "pick")
       \/ \* weighted random: r := rand.Float64() * total
          /\ ~NoEndpoints(service)
          /\ pickCount' = Increment(pickCount, service)
          /\ ~doExplore(pickCount', service)
          /\ \E u \in Draws :
                Record(PickedByDraw(service, services[service],
                                    Sample(Weights(services[service]), u), u),
                       "pick")

(***************************************************************************)
(* PheromoneSnapshot                                                       *)
(***************************************************************************)
\* a faulty variant: the entry is a pointer to the router's own pheromones
EntryShared(svcs, s, i) == [Ref |-> <<s, i>>]

\* Pheromone{Pos: pos, Neg: neg}: a copy of the two values of endpoint i
Entry(svcs, s, i) == Pair(svcs, s, i)

\* svcMap[ep.Address] = Pheromone{...} for each endpoint in order: of two
\* endpoints with one address the later one is kept
ServiceMap(svcs, s) ==
    [a \in {svcs[s][i].Address : i \in 1..Len(svcs[s])} |->
        LET i == CHOOSE k \in 1..Len(svcs[s]) :
                    /\ svcs[s][k].Address = a
                    /\ \A j \in (k + 1)..Len(svcs[s]) : svcs[s][j].Address # a
        IN  Entry(svcs, s, i)]

Snapshot(svcs) == [s \in DOMAIN svcs |-> ServiceMap(svcs, s)]

PheromoneSnapshot ==
    /\ MayCall("snapshot")
    /\ snapshot' = Snapshot(services)
    /\ UNCHANGED <<services, pickCount, config>>
    /\ Record([op |-> "PheromoneSnapshot"], "snapshot")

\* The caller assigns to an entry of the snapshot it holds:
\* p := snap[s][a]; p.Pos, p.Neg = 1, 1; snap[s][a] = p
CallerWrite(s, a) ==
    /\ MayCall("write")
    /\ s \in DOMAIN snapshot
    /\ a \in DOMAIN snapshot[s]
    /\ IF "Ref" \in DOMAIN snapshot[s][a]
       THEN /\ services' =
                  [services EXCEPT
                      ![snapshot[s][a].Ref[1]][snapshot[s][a].Ref[2]] =
                          [@ EXCEPT !.Pheromones["latency"].Pos = One,
                                    !.Pheromones["error"].Neg = One]]
            /\ UNCHANGED snapshot
       ELSE /\ snapshot' = [snapshot EXCEPT ![s][a] = [Pos |-> One, Neg |-> One]]
            /\ UNCHANGED services
    /\ UNCHANGED <<pickCount, config>>
    /\ Record([op |-> "CallerWrite", service |-> s, address |-> a], "write")

(***************************************************************************)
(* The router used by one caller at a time: every operation is one step.   *)
(***************************************************************************)
Next ==
    \/ \E name \in ServiceNames, endpoints \in EndpointLists :
          AddService(name, endpoints)
    \/ \E service \in ReportedServices, endpoint \in Addresses, o \in Outcomes :
          ReportResult(service, endpoint, o[1], o[2])
    \/ evaporateOnce
    \/ \E service \in ServiceNames : PickEndpoint(service)
    \/ PheromoneSnapshot
    \/ \E s \in ServiceNames, a \in Addresses : CallerWrite(s, a)
    \/ \E r \in RateArgs : SetRequestEvapRate(r)
    \/ \E w \in WeightArgs : SetBaseWeight(w)
    \/ \E k \in ScaleArgs : SetPosNegScale(k, k)
    \/ \E p \in ExplorationArgs : SetPeriodicExploration(p[1], p[2])
    \/ \E threshold \in ThresholdArgs : SetSlowThresholdSec(threshold)
    \/ \E alpha \in RateArgs : SetBadPosDecay(alpha)
    \/ \E r \in EvaporationRates : WriteEvaporationRate(r)

Spec == Init /\ [][Next]_vars

(***************************************************************************)
(* The router used by several goroutines.  An operation takes mu, does its *)
(* memory accesses one at a time, and releases mu.  The order in which Go  *)
(* ranges over a map is not fixed: it is chosen when the range begins.     *)
(***************************************************************************)
\* a faulty variant: Lock returns at once
LockNeverWaits == TRUE

\* a faulty variant: Lock does not wait for the readers
LockIgnoresReaders == mu.writer = NoThread

\* sr.mu.Lock() returns when no goroutine writes and none reads
LockFree == mu.writer = NoThread /\ mu.readers = {}

\* a faulty variant: RLock returns at once
RLockIgnoresWriter == TRUE

\* sr.mu.RLock() returns when no goroutine writes
RLockFree == mu.writer = NoThread

\* the orders in which a range may visit the keys S of a map
Perms(S) ==
    {q \in [1..Cardinality(S) -> S] :
        \A i, j \in 1..Cardinality(S) : i # j => q[i] # q[j]}

\* the sequences ss[i], ss[i + 1], ... one after the other
RECURSIVE FlattenFrom(_, _)
FlattenFrom(ss, i) == IF i > Len(ss) THEN <<>> ELSE ss[i] \o FlattenFrom(ss, i + 1)

Flatten(ss) == FlattenFrom(ss, 1)

\* one write to memory: field f of channel c of endpoint i of service s, or
\* (kind "config") the configuration field s
Write(kind, s, i, c, f, x) ==
    [kind |-> kind, s |-> s, i |-> i, c |-> c, f |-> f, x |-> x]

\* p.Pos *= factor; p.Neg *= factor, for every pheromone in range order
DecayWrites(order, chans, factor) ==
    Flatten([k \in 1..Len(order) |->
        Flatten([i \in 1..Len(services[order[k]]) |->
            Flatten([h \in 1..Len(chans) |->
                <<Write("mul", order[k], i, chans[h], "Pos", factor),
                  Write("mul", order[k], i, chans[h], "Neg", factor)>>])])])

\* the writes of ReportResult after its per-request evaporation
UpdateWrites(service, endpoint, latency, success) ==
    IF service \notin DOMAIN services THEN <<>>
    ELSE LET i == FirstIndex(services[service], endpoint)
         IN  IF i = 0 THEN <<>>
             ELSE IF ~success \/ isSlow(latency)
             THEN <<Write("add", service, i, "error", "Neg", negReinforce)>>
                  \o (IF RLt(Zero, alphaBad)
                      THEN <<Write("mul", service, i, "latency", "Pos",
                                   RSub(One, alphaBad))>>
                      ELSE <<>>)
                  \o (IF success
                      THEN <<Write("mul", service, i, "error", "Neg",
                                   RSub(One, evaporationRate))>>
                      ELSE <<>>)
             ELSE <<Write("add", service, i, "latency", "Pos",
                          RDiv(posReinforce, RAdd(latency, Epsilon))),
                    Write("mul", service, i, "error", "Neg",
                          RSub(One, evaporationRate))>>

\* the table after one write
Apply(svcs, w) ==
    CASE w.kind = "store" -> (w.s :> w.x) @@ svcs
      [] w.kind = "mul" ->
            [svcs EXCEPT ![w.s][w.i].Pheromones[w.c][w.f] = RMul(@, w.x)]
      [] w.kind = "add" ->
            [svcs EXCEPT ![w.s][w.i].Pheromones[w.c][w.f] = RAdd(@, w.x)]

\* sr.mu.Lock() at the head of a writing operation; a caller that has let go
\* of the router calls it no more.  The operations take effect in the order
\* in which they get mu: the call and the state it finds are recorded here.
Acquire(t, writes, kind, op) ==
    /\ pc[t] = "idle"
    /\ t \in Callers => ~destroyed
    /\ LockFree
    /\ mu' = [mu EXCEPT !.writer = t]
    /\ pc' = [pc EXCEPT ![t] = "locked"]
    /\ prog' = [prog EXCEPT ![t] = writes]
    /\ calls' = [calls EXCEPT ![kind] = @ + 1]
    /\ last' = op
    /\ prev' = State
    /\ UNCHANGED <<router, snapshot, prevView, rd, pk, destroyed,
                   lastCommitted, committed>>

\* a call of a writing operation, within the bounds of the run
Lock(t, writes, kind, op) == MayCall(kind) /\ Acquire(t, writes, kind, op)

\* a faulty variant: the record is stored with its first endpoint and
\* completed by a second store
AddServiceLockPiecewise(t, name, endpoints) ==
    Lock(t, <<Write("store", name, 0, "", "", NewEndpoints(SubSeq(endpoints, 1, 1))),
              Write("store", name, 0, "", "", NewEndpoints(endpoints))>>, "add",
         [op |-> "AddService", name |-> name, endpoints |-> endpoints])

\* AddService: eps is built from the arguments alone, sr.services[name] = eps
\* is its one write to the router
AddServiceLock(t, name, endpoints) ==
    Lock(t, <<Write("store", name, 0, "", "", NewEndpoints(endpoints))>>, "add",
         [op |-> "AddService", name |-> name, endpoints |-> endpoints])

ReportResultLock(t, service, endpoint, latency, success) ==
    \E order \in Perms(DOMAIN services), chans \in Perms(Channels) :
        Lock(t,
             (IF RLt(Zero, reqEvapRate)
              THEN DecayWrites(order, chans, RSub(One, reqEvapRate))
              ELSE <<>>)
                \o UpdateWrites(service, endpoint, latency, success),
             "report",
             [op |-> "ReportResult", service |-> service, endpoint |-> endpoint,
              latency |-> latency, success |-> success])

\* a tick of evaporateLoop: evaporateOnce
evaporateOnceLock ==
    \E order \in Perms(DOMAIN services), chans \in Perms(Channels) :
        Lock("evaporateLoop",
             DecayWrites(order, chans, RSub(One, evaporationRate)), "evap",
             [op |-> "evaporateOnce"])

\* the setters: the argument is clamped and stored under mu
SetRequestEvapRateLock(t, r) ==
    Lock(t, <<Write("config", "reqEvapRate", 0, "", "", ClampUnit(r))>>, "set",
         [op |-> "SetRequestEvapRate", r |-> r])

SetBaseWeightLock(t, w) ==
    Lock(t, <<Write("config", "baseWeight", 0, "", "", ClampLow(w))>>, "set",
         [op |-> "SetBaseWeight", w |-> w])

SetPosNegScaleLock(t, kpos, kneg) ==
    Lock(t, <<Write("config", "posReinforce", 0, "", "", ClampLow(kpos)),
              Write("config", "negReinforce", 0, "", "", ClampLow(kneg))>>, "set",
         [op |-> "SetPosNegScale", kpos |-> kpos, kneg |-> kneg])

SetPeriodicExplorationLock(t, everyN, negThreshold) ==
    Lock(t, <<Write("config", "exploreEveryN", 0, "", "",
                    IF everyN < 0 THEN 0 ELSE everyN),
              Write("config", "exploreNegThreshold", 0, "", "",
                    ClampLow(negThreshold))>>, "set",
         [op |-> "SetPeriodicExploration", everyN |-> everyN,
          negThreshold |-> negThreshold])

SetSlowThresholdSecLock(t, threshold) ==
    Lock(t, <<Write("config", "slowThresholdSec", 0, "", "", ClampLow(threshold))>>,
         "set", [op |-> "SetSlowThresholdSec", threshold |-> threshold])

SetBadPosDecayLock(t, alpha) ==
    Lock(t, <<Write("config", "alphaBad", 0, "", "", ClampUnit(alpha))>>, "set",
         [op |-> "SetBadPosDecay", alpha |-> alpha])

\* the next write of the goroutine that holds mu
WriteStep(t) ==
    /\ pc[t] = "locked"
    /\ prog[t] # <<>>
    /\ LET w == Head(prog[t])
           stored(field, old) == IF w.s = field THEN w.x ELSE old
       IN  IF w.kind = "config"
           THEN /\ reqEvapRate' = stored("reqEvapRate", reqEvapRate)
                /\ baseWeight' = stored("baseWeight", baseWeight)
                /\ posReinforce' = stored("posReinforce", posReinforce)
                /\ negReinforce' = stored("negReinforce", negReinforce)
                /\ exploreEveryN' = stored("exploreEveryN", exploreEveryN)
                /\ exploreNegThreshold' =
                      stored("exploreNegThreshold", exploreNegThreshold)
                /\ slowThresholdSec' = stored("slowThresholdSec", slowThresholdSec)
                /\ alphaBad' = stored("alphaBad", alphaBad)
                /\ UNCHANGED <<services, evaporationRate>>
           ELSE /\ services' = Apply(services, w)
                /\ UNCHANGED config
    /\ prog' = [prog EXCEPT ![t] = Tail(@)]
    /\ UNCHANGED <<pickCount, snapshot, last, prev, prevView, calls, mu, pc, rd,
                   pk, destroyed, lastCommitted, committed>>

\* a faulty variant: the operation returns without sr.mu.Unlock()
UnlockForgotten(t) ==
    /\ pc[t] = "locked"
    /\ prog[t] = <<>>
    /\ pc' = [pc EXCEPT ![t] = "idle"]
    /\ lastCommitted' = services
    /\ committed' = IF pc["monitor"] \in {"idle", "returned"}
                    THEN committed
                    ELSE committed \cup {services}
    /\ UNCHANGED <<router, snapshot, last, prev, prevView, calls, mu, prog, rd, pk,
                   destroyed>>

\* the deferred sr.mu.Unlock(): the operation is complete
Unlock(t) ==
    /\ pc[t] = "locked"
    /\ prog[t] = <<>>
    /\ mu' = [mu EXCEPT !.writer = NoThread]
    /\ pc' = [pc EXCEPT ![t] = "idle"]
    /\ lastCommitted' = services
    /\ committed' = IF pc["monitor"] \in {"idle", "returned"}
                    THEN committed
                    ELSE committed \cup {services}
    /\ UNCHANGED <<router, snapshot, last, prev, prevView, calls, prog, rd, pk,
                   destroyed>>

\* snaps[i] = snap{addr, pos, neg}
Snaps(eps) ==
    [i \in 1..Len(eps) |->
        [addr |-> eps[i].Address,
         pos |-> eps[i].Pheromones["latency"].Pos,
         neg |-> eps[i].Pheromones["error"].Neg]]

\* a faulty variant: sr.baseWeight is read after the Unlock
SnapWeightsLate(snaps, bw) ==
    [i \in 1..Len(snaps) |->
        RDiv(RAdd(snaps[i].pos, baseWeight), RAdd(One, snaps[i].neg))]

\* weight := (pos + baseWeight) / (1.0 + neg), from the copies
SnapWeights(snaps, bw) ==
    [i \in 1..Len(snaps) |-> RDiv(RAdd(snaps[i].pos, bw), RAdd(One, snaps[i].neg))]

\* PickEndpoint: sr.mu.Lock()
PickEndpointLock(t, service) ==
    /\ pc[t] = "idle"
    /\ ~destroyed
    /\ MayCall("pick")
    /\ LockFree
    /\ mu' = [mu EXCEPT !.writer = t]
    /\ pc' = [pc EXCEPT ![t] = "picking"]
    /\ pk' = [pk EXCEPT ![t] = [NoPick EXCEPT !.service = service]]
    /\ calls' = [calls EXCEPT !.pick = @ + 1]
    /\ UNCHANGED <<router, snapshot, last, prev, prevView, prog, rd, destroyed,
                   lastCommitted, committed>>

\* PickEndpoint from the lookup of the service to sr.mu.Unlock(): the failure,
\* the forced exploration, or the copy of the values the weights are made of
PickEndpointLocked(t) ==
    /\ pc[t] = "picking"
    /\ mu' = [mu EXCEPT !.writer = NoThread]
    /\ LET service == pk[t].service
       IN  IF NoEndpoints(service)
           THEN /\ pk' = [pk EXCEPT ![t] = [NoPick EXCEPT !.err = TRUE]]
                /\ pc' = [pc EXCEPT ![t] = "idle"]
                /\ UNCHANGED <<pickCount, calls>>
           ELSE /\ pickCount' = Increment(pickCount, service)
                /\ calls' = [calls EXCEPT !.picked[service] = @ + 1]
                /\ IF doExplore(pickCount', service)
                   THEN /\ \E idx \in 1..Len(Candidates(services[service])) :
                              pk' = [pk EXCEPT ![t] = [NoPick EXCEPT !.addr =
                                        Candidates(services[service])[idx].Address]]
                        /\ pc' = [pc EXCEPT ![t] = "idle"]
                   ELSE /\ pk' = [pk EXCEPT
                                    ![t].snaps = Snaps(services[service]),
                                    ![t].baseWeight = baseWeight]
                        /\ pc' = [pc EXCEPT ![t] = "sampling"]
    /\ UNCHANGED <<services, config, snapshot, last, prev, prevView, prog, rd,
                   destroyed, lastCommitted, committed>>

\* a faulty variant: the address is read from the router's table after the
\* Unlock, at the index drawn from the copies
PickEndpointSampleFromTable(t) ==
    /\ pc[t] = "sampling"
    /\ \E u \in Draws :
          LET weights == SnapWeights(pk[t].snaps, pk[t].baseWeight)
              eps == services[pk[t].service]
              i == Sample(weights, u)
          IN  pk' = [pk EXCEPT ![t] = [NoPick EXCEPT !.addr =
                        IF i <= Len(eps) THEN eps[i].Address ELSE "none"]]
    /\ pc' = [pc EXCEPT ![t] = "idle"]
    /\ UNCHANGED <<router, snapshot, last, prev, prevView, calls, mu, prog, rd,
                   destroyed, lastCommitted, committed>>

\* PickEndpoint after sr.mu.Unlock(): the weights, the draw and the sampling
\* loop, all from the copies; of the
\* locals only the returned address outlives the call
PickEndpointSample(t) ==
    /\ pc[t] = "sampling"
    /\ \E u \in Draws :
          LET weights == SnapWeights(pk[t].snaps, pk[t].baseWeight)
          IN  pk' = [pk EXCEPT ![t] = [NoPick EXCEPT !.addr =
                                          pk[t].snaps[Sample(weights, u)].addr]]
    /\ pc' = [pc EXCEPT ![t] = "idle"]
    /\ UNCHANGED <<router, snapshot, last, prev, prevView, calls, mu, prog, rd,
                   destroyed, lastCommitted, committed>>

\* PheromoneSnapshot is called: snapshot := make(map...)
SnapshotCall ==
    /\ pc["monitor"] \in {"idle", "returned"}
    /\ ~destroyed
    /\ MayCall("snapshot")
    /\ pc' = [pc EXCEPT !["monitor"] = "rlock"]
    /\ rd' = NoLocals
    /\ committed' = {lastCommitted}
    /\ calls' = [calls EXCEPT !.snapshot = @ + 1]
    /\ UNCHANGED <<router, snapshot, last, prev, prevView, mu, prog, pk, destroyed,
                   lastCommitted>>

\* sr.mu.RLock(), and the range over sr.services begins
SnapshotRLock ==
    /\ pc["monitor"] = "rlock"
    /\ RLockFree
    /\ mu' = [mu EXCEPT !.readers = @ \cup {"monitor"}]
    /\ pc' = [pc EXCEPT !["monitor"] = "range"]
    /\ rd' = [rd EXCEPT !.todo = DOMAIN services]
    /\ UNCHANGED <<router, snapshot, last, prev, prevView, calls, prog, pk,
                   destroyed, lastCommitted, committed>>

\* for svc, eps := range sr.services { svcMap := make(map...)
SnapshotRange ==
    /\ pc["monitor"] = "range"
    /\ \E svc \in rd.todo :
          LET eps == IF svc \in DOMAIN services THEN services[svc] ELSE <<>>
          IN  IF Len(eps) = 0
              THEN /\ rd' = [rd EXCEPT !.todo = @ \ {svc},
                                       !.snapshot = (svc :> <<>>) @@ @]
                   /\ UNCHANGED pc
              ELSE /\ rd' = [rd EXCEPT !.todo = @ \ {svc}, !.svc = svc,
                                       !.eps = [i \in 1..Len(eps) |-> eps[i].Address],
                                       !.i = 1, !.svcMap = <<>>]
                   /\ pc' = [pc EXCEPT !["monitor"] = "pos"]
    /\ UNCHANGED <<router, snapshot, last, prev, prevView, calls, mu, prog, pk,
                   destroyed, lastCommitted, committed>>

\* the value of a field as the monitor loads it from memory
Load(s, i, c, f) ==
    IF s \in DOMAIN services
    THEN IF i <= Len(services[s]) THEN services[s][i].Pheromones[c][f] ELSE Zero
    ELSE Zero

\* pos := ep.Pheromones["latency"].Pos
SnapshotReadPos ==
    /\ pc["monitor"] = "pos"
    /\ rd' = [rd EXCEPT !.pos = Load(rd.svc, rd.i, "latency", "Pos")]
    /\ pc' = [pc EXCEPT !["monitor"] = "neg"]
    /\ UNCHANGED <<router, snapshot, last, prev, prevView, calls, mu, prog, pk,
                   destroyed, lastCommitted, committed>>

\* neg := ep.Pheromones["error"].Neg; svcMap[ep.Address] = Pheromone{pos, neg};
\* after the last endpoint, snapshot[svc] = svcMap
SnapshotReadNeg ==
    /\ pc["monitor"] = "neg"
    /\ LET entry == [Pos |-> rd.pos, Neg |-> Load(rd.svc, rd.i, "error", "Neg")]
           svcMap == (rd.eps[rd.i] :> entry) @@ rd.svcMap
       IN  IF rd.i < Len(rd.eps)
           THEN /\ rd' = [rd EXCEPT !.svcMap = svcMap, !.i = @ + 1]
                /\ pc' = [pc EXCEPT !["monitor"] = "pos"]
           ELSE /\ rd' = [rd EXCEPT !.svcMap = svcMap,
                                    !.snapshot = (rd.svc :> svcMap) @@ @]
                /\ pc' = [pc EXCEPT !["monitor"] = "range"]
    /\ UNCHANGED <<router, snapshot, last, prev, prevView, calls, mu, prog, pk,
                   destroyed, lastCommitted, committed>>

\* return snapshot, and the deferred sr.mu.RUnlock()
SnapshotReturn ==
    /\ pc["monitor"] = "range"
    /\ rd.todo = {}
    /\ snapshot' = rd.snapshot
    /\ mu' = [mu EXCEPT !.readers = @ \ {"monitor"}]
    /\ pc' = [pc EXCEPT !["monitor"] = "returned"]
    /\ UNCHANGED <<router, last, prev, prevView, calls, prog, rd, pk, destroyed,
                   lastCommitted, committed>>

\* The program lets go of the router: its calls have returned and it makes no
\* other.  The package has no Close or Stop; evaporateLoop, started by
\* NewSwarmRoute, ranges over a ticker that nothing stops.
Teardown ==
    /\ ~destroyed
    /\ \A t \in Callers : pc[t] = "idle"
    /\ pc["monitor"] \in {"idle", "returned"}
    /\ destroyed' = TRUE
    /\ UNCHANGED <<router, snapshot, last, prev, prevView, calls, mu, pc, prog, rd,
                   pk, lastCommitted, committed>>

\* the inputs of the concurrent runs: a fast success and a failure, one list
\* of endpoints, requests for one service, and one argument for each setter
ConcRequestServices == {"s1"}
ConcOutcomes == {<<LatFast, TRUE>>, <<LatFast, FALSE>>}
ConcEndpointLists == {<<"A", "B">>, <<"">>}
ConcRateArgs == {R(1, 2)}
ConcWeightArgs == {R(1, 2)}
ConcScaleArgs == {R(2, 1)}
ConcEveryNArgs == {1}
ConcThresholdArgs == {LatSlow}

NextConc ==
    \/ \E t \in Configurers, name \in ServiceNames, endpoints \in ConcEndpointLists :
          AddServiceLock(t, name, endpoints)
    \/ \E t \in Callers, service \in ConcRequestServices, endpoint \in Addresses,
          o \in ConcOutcomes :
          ReportResultLock(t, service, endpoint, o[1], o[2])
    \/ evaporateOnceLock
    \/ \E t \in Configurers, r \in ConcRateArgs : SetRequestEvapRateLock(t, r)
    \/ \E t \in Configurers, w \in ConcWeightArgs : SetBaseWeightLock(t, w)
    \/ \E t \in Configurers, kpos \in ConcScaleArgs, kneg \in ConcScaleArgs :
          SetPosNegScaleLock(t, kpos, kneg)
    \/ \E t \in Configurers, everyN \in ConcEveryNArgs,
          negThreshold \in ConcWeightArgs :
          SetPeriodicExplorationLock(t, everyN, negThreshold)
    \/ \E t \in Configurers, threshold \in ConcThresholdArgs :
          SetSlowThresholdSecLock(t, threshold)
    \/ \E t \in Configurers, alpha \in ConcRateArgs : SetBadPosDecayLock(t, alpha)
    \/ \E t \in Writers : WriteStep(t)
    \/ \E t \in Writers : Unlock(t)
    \/ \E t \in Pickers, service \in ConcRequestServices :
          PickEndpointLock(t, service)
    \/ \E t \in Pickers : PickEndpointLocked(t)
    \/ \E t \in Pickers : PickEndpointSample(t)
    \/ SnapshotCall
    \/ SnapshotRLock
    \/ SnapshotRange
    \/ SnapshotReadPos
    \/ SnapshotReadNeg
    \/ SnapshotReturn
    \/ Teardown

SpecConc == Init /\ [][NextConc]_vars

(***************************************************************************)
(* The router under fair scheduling.  One goroutine calls the router, the  *)
(* monitoring goroutine takes snapshots, and the ticker of evaporateLoop   *)
(* fires whatever the callers do: its ticks are bounded on their own.      *)
(* The scheduler leaves no runnable goroutine waiting for ever.            *)
(***************************************************************************)
\* a faulty variant: no goroutine was started, nothing ticks
NoTick == FALSE /\ UNCHANGED vars

\* for range ticker.C { sr.evaporateOnce() }
Tick ==
    /\ calls.evap < MaxEvaps
    /\ \E order \in Perms(DOMAIN services), chans \in Perms(Channels) :
          Acquire("evaporateLoop",
                  DecayWrites(order, chans, RSub(One, evaporationRate)), "evap",
                  [op |-> "evaporateOnce"])

\* the inputs of the fair runs: one service with one endpoint; the setters
\* are called with the values the parameters have, but for the one that
\* turns the forced exploration on
LiveEndpointLists == {<<"A">>}
LiveAddresses == {"A"}
LiveRateArgs == {Zero}
LiveWeightArgs == {R(10, 100)}
LiveScaleArgs == {One}
LiveThresholdArgs == {Zero}

NextLive ==
    \/ \E t \in Pickers, name \in ConcRequestServices,
          endpoints \in LiveEndpointLists :
          AddServiceLock(t, name, endpoints)
    \/ \E t \in Pickers, service \in ConcRequestServices,
          endpoint \in LiveAddresses, o \in ConcOutcomes :
          ReportResultLock(t, service, endpoint, o[1], o[2])
    \/ Tick
    \/ \E t \in Pickers, r \in LiveRateArgs : SetRequestEvapRateLock(t, r)
    \/ \E t \in Pickers, w \in LiveWeightArgs : SetBaseWeightLock(t, w)
    \/ \E t \in Pickers, kpos \in LiveScaleArgs, kneg \in LiveScaleArgs :
          SetPosNegScaleLock(t, kpos, kneg)
    \/ \E t \in Pickers, everyN \in ConcEveryNArgs,
          negThreshold \in ConcWeightArgs :
          SetPeriodicExplorationLock(t, everyN, negThreshold)
    \/ \E t \in Pickers, threshold \in LiveThresholdArgs :
          SetSlowThresholdSecLock(t, threshold)
    \/ \E t \in Pickers, alpha \in LiveRateArgs : SetBadPosDecayLock(t, alpha)
    \/ \E t \in Writers : WriteStep(t)
    \/ \E t \in Writers : Unlock(t)
    \/ \E t \in Pickers, service \in ConcRequestServices :
          PickEndpointLock(t, service)
    \/ \E t \in Pickers : PickEndpointLocked(t)
    \/ \E t \in Pickers : PickEndpointSample(t)
    \/ SnapshotCall
    \/ SnapshotRLock
    \/ SnapshotRange
    \/ SnapshotReadPos
    \/ SnapshotReadNeg
    \/ SnapshotReturn

\* a step of a goroutine inside a call, or the next tick: everything but the
\* decision of a caller to make a call
Run ==
    \/ Tick
    \/ \E t \in Writers : WriteStep(t)
    \/ \E t \in Writers : Unlock(t)
    \/ \E t \in Pickers : PickEndpointLocked(t)
    \/ \E t \in Pickers : PickEndpointSample(t)
    \/ SnapshotRLock
    \/ SnapshotRange
    \/ SnapshotReadPos
    \/ SnapshotReadNeg
    \/ SnapshotReturn

\* while some goroutine can run, one of them does
Fairness == WF_vars(Run)

SpecLive == Init /\ [][NextLive]_vars /\ Fairness

(***************************************************************************)
(* The claims.  Each is stated over the last operation (last), the router  *)
(* state before it (prev) and the state after it.                          *)
(***************************************************************************)
Positive(x) == RLt(Zero, x)

\* the endpoints of service s in the router state st; none when s is unknown
EndpointsOf(st, s) == IF s \in DOMAIN st.services THEN st.services[s] ELSE <<>>

\* the last operation was a report whose address names an endpoint of its service
ReportedKnown ==
    /\ last.op = "ReportResult"
    /\ \E i \in 1..Len(EndpointsOf(prev, last.service)) :
          EndpointsOf(prev, last.service)[i].Address = last.endpoint

ReportedUnknown ==
    /\ last.op = "ReportResult"
    /\ \A i \in 1..Len(EndpointsOf(prev, last.service)) :
          EndpointsOf(prev, last.service)[i].Address # last.endpoint

\* the endpoint a report is about: the first one registered under the address
TargetIndex ==
    CHOOSE i \in 1..Len(prev.services[last.service]) :
        /\ prev.services[last.service][i].Address = last.endpoint
        /\ \A j \in 1..(i - 1) :
              prev.services[last.service][j].Address # last.endpoint

\* the last report was a failure, or a success slower than a positive threshold
ReportedBad ==
    \/ ~last.success
    \/ Positive(prev.slowThresholdSec) /\ RLt(prev.slowThresholdSec, last.latency)

NegBefore == prev.services[last.service][TargetIndex].Pheromones["error"].Neg
NegAfter == services[last.service][TargetIndex].Pheromones["error"].Neg

\* after holds the services and endpoints of before, every pheromone times f
Scaled(before, after, f) ==
    /\ DOMAIN after = DOMAIN before
    /\ \A s \in DOMAIN before :
          /\ Len(after[s]) = Len(before[s])
          /\ \A i \in 1..Len(before[s]) :
                /\ after[s][i].Address = before[s][i].Address
                /\ DOMAIN after[s][i].Pheromones = DOMAIN before[s][i].Pheromones
                /\ \A c \in DOMAIN before[s][i].Pheromones :
                      /\ after[s][i].Pheromones[c].Pos
                            = RMul(before[s][i].Pheromones[c].Pos, f)
                      /\ after[s][i].Pheromones[c].Neg
                            = RMul(before[s][i].Pheromones[c].Neg, f)

\* some pheromone of the table is not zero
SomePheromone(svcs) ==
    \E s \in DOMAIN svcs : \E i \in 1..Len(svcs[s]) :
        \E c \in DOMAIN svcs[s][i].Pheromones :
            \/ svcs[s][i].Pheromones[c].Pos # Zero
            \/ svcs[s][i].Pheromones[c].Neg # Zero

\* C1: PickEndpoint(s) returns the no-endpoints failure and no address when s
\* is unknown or registered with an empty list, and an address of s without
\* failure when s has at least one endpoint.
C1_PickFailsIffNoEndpoints ==
    last.op = "PickEndpoint" =>
        LET eps == EndpointsOf(prev, last.service)
        IN  /\ Len(eps) = 0 => last.err /\ last.addr = ""
            /\ Len(eps) > 0 =>
                  /\ ~last.err
                  /\ \E i \in 1..Len(eps) : eps[i].Address = last.addr

\* a pick on a service registered with an empty list has failed
C1_Witness ==
    /\ last.op = "PickEndpoint"
    /\ last.service \in DOMAIN services
    /\ services[last.service] = <<>>
    /\ last.err

\* C2: in every reachable state every pheromone of every endpoint has
\* pos >= 0 and neg >= 0.
C2_PheromonesNonNegative ==
    \A s \in DOMAIN services : \A i \in 1..Len(services[s]) :
        \A c \in DOMAIN services[s][i].Pheromones :
            /\ RLe(Zero, services[s][i].Pheromones[c].Pos)
            /\ RLe(Zero, services[s][i].Pheromones[c].Neg)

\* the table of TestEvaporationExactTick: (latency.pos, error.neg) = (1.0, 0.5)
ExampleTable ==
    [svc |-> <<[Address |-> "A",
                Pheromones |-> [latency |-> [Pos |-> One, Neg |-> Zero],
                                error |-> [Pos |-> Zero, Neg |-> R(5, 10)]]]>>]

\* C3: one evaporateOnce at rate r replaces every pheromone value x, pos and
\* neg, of every channel of every endpoint of every service, by x * (1 - r);
\* at r = 0.2, (latency.pos, error.neg) = (1.0, 0.5) becomes (0.8, 0.4).
C3_EvaporateOnceScalesAll ==
    /\ last.op = "evaporateOnce" =>
          Scaled(prev.services, services, RSub(One, prev.evaporationRate))
    /\ Pair(Decay(ExampleTable, RSub(One, R(2, 10))), "svc", 1)
          = [Pos |-> R(8, 10), Neg |-> R(4, 10)]

\* an evaporation at a rate in (0, 1) of an endpoint with pos > 0 and neg > 0
C3_Witness ==
    /\ last.op = "evaporateOnce"
    /\ Positive(prev.evaporationRate) /\ RLt(prev.evaporationRate, One)
    /\ \E s \in DOMAIN prev.services : \E i \in 1..Len(prev.services[s]) :
          /\ Positive(Pair(prev.services, s, i).Pos)
          /\ Positive(Pair(prev.services, s, i).Neg)
          /\ RLt(Pair(services, s, i).Pos, Pair(prev.services, s, i).Pos)

\* C4: after AddService(name, A), registered before or not, the endpoints of
\* name are exactly A in the supplied order, each with the channels latency and
\* error at (0, 0).
C4_AddServiceReplaces ==
    last.op = "AddService" =>
        /\ last.name \in DOMAIN services
        /\ Len(services[last.name]) = Len(last.endpoints)
        /\ \A i \in 1..Len(last.endpoints) :
              /\ services[last.name][i].Address = last.endpoints[i]
              /\ DOMAIN services[last.name][i].Pheromones = {"latency", "error"}
              /\ \A c \in {"latency", "error"} :
                    services[last.name][i].Pheromones[c]
                        = [Pos |-> Zero, Neg |-> Zero]

\* a service that had accumulated pheromone was registered again
C4_Witness ==
    /\ last.op = "AddService"
    /\ last.name \in DOMAIN prev.services
    /\ SomePheromone([s \in {last.name} |-> prev.services[s]])
    /\ last.endpoints = <<"A", "B">>

\* the router's state but for its pheromone values
Frame(st) == [st EXCEPT !.services = <<>>]

\* C5 as claimed: a report for an unknown service or an unknown address
\* leaves the whole router state as it was, reqEvapRate > 0 included.
C5_UnknownReportIsNoOp ==
    ReportedUnknown => State = prev

\* C5 as amended: such a report changes no pick counter, no parameter, no
\* service and no endpoint; with reqEvapRate = 0 it changes nothing at all,
\* and with reqEvapRate > 0 it multiplies every pheromone by 1 - reqEvapRate.
C5_UnknownReportOnlyDecays ==
    ReportedUnknown =>
        /\ Frame(State) = Frame(prev)
        /\ prev.reqEvapRate = Zero => services = prev.services
        /\ Positive(prev.reqEvapRate) =>
              Scaled(prev.services, services, RSub(One, prev.reqEvapRate))

\* a report for an unknown address has decayed a pheromone
C5_Witness ==
    /\ ReportedUnknown
    /\ Positive(prev.reqEvapRate)
    /\ services # prev.services

\* C6 as claimed: after a bad report on a registered endpoint e, e.error.neg is
\* strictly larger than before, by exactly negReinforce.
C6_BadReportAddsNegReinforce ==
    ReportedKnown /\ ReportedBad =>
        /\ RLt(NegBefore, NegAfter)
        /\ NegAfter = RAdd(NegBefore, prev.negReinforce)

\* C6 as amended: after a bad report on a registered endpoint e, e.error.neg
\* is neg_before (times 1 - reqEvapRate when reqEvapRate > 0) plus
\* negReinforce, times 1 - evaporationRate when the call was a slow success;
\* after a failure with reqEvapRate = 0 it is larger than before by exactly
\* negReinforce, strictly larger when negReinforce > 0.
C6_BadReportNegUpdate ==
    ReportedKnown /\ ReportedBad =>
        LET decayed == IF Positive(prev.reqEvapRate)
                       THEN RMul(NegBefore, RSub(One, prev.reqEvapRate))
                       ELSE NegBefore
            raised == RAdd(decayed, prev.negReinforce)
        IN  /\ ~last.success => NegAfter = raised
            /\ last.success =>
                  NegAfter = RMul(raised, RSub(One, prev.evaporationRate))
            /\ ~last.success /\ prev.reqEvapRate = Zero =>
                  /\ NegAfter = RAdd(NegBefore, prev.negReinforce)
                  /\ Positive(prev.negReinforce) => RLt(NegBefore, NegAfter)

\* a slow success on a registered endpoint: the increment was forgiven in part
C6_Witness ==
    /\ ReportedKnown /\ ReportedBad
    /\ last.success
    /\ Positive(prev.negReinforce) /\ Positive(prev.evaporationRate)
    /\ RLt(NegAfter, RAdd(NegBefore, prev.negReinforce))

\* C7: after a good report on a registered endpoint e at evaporation rate rho,
\* e.error.neg_after <= e.error.neg_before * (1 - rho), and neg_after is never
\* larger than neg_before.
C7_GoodReportForgives ==
    ReportedKnown /\ ~ReportedBad =>
        /\ RLe(NegAfter, RMul(NegBefore, RSub(One, prev.evaporationRate)))
        /\ RLe(NegAfter, NegBefore)

\* a good report on an endpoint with neg > 0, at a rate in (0, 1)
C7_Witness ==
    /\ ReportedKnown /\ ~ReportedBad
    /\ Positive(NegBefore)
    /\ Positive(prev.evaporationRate) /\ RLt(prev.evaporationRate, One)
    /\ RLt(NegAfter, NegBefore)

\* C8: a snapshot taken while ReportResult, evaporateOnce and AddService run
\* in other goroutines shows no torn pair: there is one committed table, the
\* router's table between two complete operations at some moment between the
\* call and the return, of which every entry of the snapshot shows the
\* (latency.pos, error.neg) of an endpoint registered under its address.
C8_NoTornPair ==
    pc["monitor"] = "returned" =>
        \E table \in committed :
            /\ DOMAIN snapshot = DOMAIN table
            /\ \A s \in DOMAIN table :
                  /\ DOMAIN snapshot[s]
                        = {table[s][i].Address : i \in 1..Len(table[s])}
                  /\ \A a \in DOMAIN snapshot[s] :
                        \E i \in 1..Len(table[s]) :
                            /\ table[s][i].Address = a
                            /\ snapshot[s][a] = Pair(table, s, i)

\* a snapshot returned a pair with pos > 0 and neg > 0 after an operation
\* was committed between its call and its return
C8_Witness ==
    /\ pc["monitor"] = "returned"
    /\ Cardinality(committed) >= 2
    /\ \E s \in DOMAIN snapshot : \E a \in DOMAIN snapshot[s] :
          Positive(snapshot[s][a].Pos) /\ Positive(snapshot[s][a].Neg)

\* C9: PheromoneSnapshot leaves the router state unchanged and returns copies:
\* what a returned snapshot shows is changed by no later router operation, and
\* a caller's write to it changes nothing of the router.
C9_SnapshotIsACopy ==
    /\ last.op = "PheromoneSnapshot" => State = prev
    /\ last.op \notin {"PheromoneSnapshot", "CallerWrite"} =>
          View(snapshot) = prevView
    /\ last.op = "CallerWrite" => State = prev

\* the caller wrote to a snapshot from which the router had already moved on
C9_Witness ==
    /\ last.op = "CallerWrite"
    /\ View(snapshot) # prevView
    /\ prevView # Snapshot(prev.services)

\* C10: a snapshot has one entry for every registered service, and under it
\* one entry for every registered address, whose value is that endpoint's
\* current (latency.pos, error.neg): an endpoint that a report has updated
\* shows its updated values in the next snapshot.
C10_SnapshotShowsEveryEndpoint ==
    last.op = "PheromoneSnapshot" =>
        /\ DOMAIN snapshot = DOMAIN services
        /\ \A s \in DOMAIN services :
              /\ DOMAIN snapshot[s]
                    = {services[s][i].Address : i \in 1..Len(services[s])}
              /\ \A i \in 1..Len(services[s]) :
                    Read(snapshot[s][services[s][i].Address])
                        = Pair(services, s, i)

PosBefore == prev.services[last.service][TargetIndex].Pheromones["latency"].Pos
PosAfter == services[last.service][TargetIndex].Pheromones["latency"].Pos

\* what the per-request evaporation of the last report left of the value x
AfterPrelude(x) ==
    IF Positive(prev.reqEvapRate) THEN RMul(x, RSub(One, prev.reqEvapRate)) ELSE x

\* the non-negative latencies reported
LatenciesReported == {o[1] : o \in {p \in Outcomes : RLe(Zero, p[1])}}

\* C11: a good report with latency L on a registered endpoint e adds exactly
\* posReinforce / (L + 1e-6) to e.latency.pos as the per-request prelude left
\* it; with posReinforce > 0 and L >= 0 that deposit is strictly larger than
\* the deposit of any larger latency.
C11_GoodReportDeposit ==
    ReportedKnown /\ ~ReportedBad =>
        /\ PosAfter = RAdd(AfterPrelude(PosBefore),
                           RDiv(prev.posReinforce, RAdd(last.latency, Epsilon)))
        /\ Positive(prev.posReinforce) /\ RLe(Zero, last.latency) =>
              \A slower \in LatenciesReported :
                  RLt(last.latency, slower) =>
                      RLt(RDiv(prev.posReinforce, RAdd(slower, Epsilon)),
                          RSub(PosAfter, AfterPrelude(PosBefore)))

\* a good report at the smaller latency, on an endpoint that had pos > 0, after
\* a per-request decay
C11_Witness ==
    /\ ReportedKnown /\ ~ReportedBad
    /\ last.latency = LatFast
    /\ Positive(prev.posReinforce) /\ Positive(prev.reqEvapRate)
    /\ Positive(PosBefore)

\* C12: a bad report, a failure or a slow success, increases the latency.pos
\* of no endpoint: after the call every endpoint's latency.pos is at most what
\* it was before the call.
C12_BadReportNeverRaisesPos ==
    last.op = "ReportResult" /\ ReportedBad =>
        \A s \in DOMAIN services : \A i \in 1..Len(services[s]) :
            RLe(services[s][i].Pheromones["latency"].Pos,
                prev.services[s][i].Pheromones["latency"].Pos)

\* C13: ReportResult handles a report as bad exactly when success is false, or
\* slowThresholdSec > 0 and latency > slowThresholdSec, and as good otherwise:
\* with slowThresholdSec = 0 every success is good whatever its latency, and a
\* success with latency equal to a positive threshold is good.
C13_BadExactlyWhenFailedOrSlow ==
    ReportedKnown =>
        LET pos == AfterPrelude(PosBefore)
            neg == AfterPrelude(NegBefore)
            keep == RSub(One, prev.evaporationRate)
        IN  IF ~last.success
                 \/ (Positive(prev.slowThresholdSec)
                        /\ RLt(prev.slowThresholdSec, last.latency))
            THEN /\ PosAfter = IF Positive(prev.alphaBad)
                               THEN RMul(pos, RSub(One, prev.alphaBad))
                               ELSE pos
                 /\ NegAfter = IF last.success
                               THEN RMul(RAdd(neg, prev.negReinforce), keep)
                               ELSE RAdd(neg, prev.negReinforce)
            ELSE /\ PosAfter = RAdd(pos, RDiv(prev.posReinforce,
                                              RAdd(last.latency, Epsilon)))
                 /\ NegAfter = RMul(neg, keep)

\* a success whose latency equals the positive threshold was credited
C13_Witness ==
    /\ ReportedKnown
    /\ last.success
    /\ Positive(prev.slowThresholdSec)
    /\ last.latency = prev.slowThresholdSec
    /\ RLt(PosBefore, PosAfter)

\* the table is the table before the last report with every pheromone times
\* f, but for what the report deposited on its endpoint
ScaledButTarget(f) ==
    /\ DOMAIN services = DOMAIN prev.services
    /\ \A s \in DOMAIN services :
          /\ Len(services[s]) = Len(prev.services[s])
          /\ \A i \in 1..Len(services[s]) :
                /\ services[s][i].Address = prev.services[s][i].Address
                /\ \A c \in Channels :
                      LET old == prev.services[s][i].Pheromones[c]
                          new == services[s][i].Pheromones[c]
                          target == ReportedKnown /\ s = last.service
                                        /\ i = TargetIndex
                      IN  /\ ~(target /\ c = "latency") =>
                                new.Pos = RMul(old.Pos, f)
                          /\ ~(target /\ c = "error") =>
                                new.Neg = RMul(old.Neg, f)

\* C14: with reqEvapRate > 0 a report first multiplies every pheromone of
\* every endpoint of every service by 1 - reqEvapRate and then updates its
\* endpoint, so that what this call deposits is not decayed by this call's
\* prelude; with reqEvapRate = 0 the report applies no such decay.
C14_PreludeBeforeUpdate ==
    last.op = "ReportResult" =>
        /\ ScaledButTarget(IF Positive(prev.reqEvapRate)
                           THEN RSub(One, prev.reqEvapRate)
                           ELSE One)
        /\ Positive(prev.reqEvapRate) /\ ReportedKnown =>
              LET keep == RSub(One, prev.reqEvapRate)
              IN  /\ ~ReportedBad =>
                        PosAfter = RAdd(RMul(PosBefore, keep),
                                        RDiv(prev.posReinforce,
                                             RAdd(last.latency, Epsilon)))
                  /\ ~last.success =>
                        NegAfter = RAdd(RMul(NegBefore, keep), prev.negReinforce)

\* with reqEvapRate in (0, 1), a good report was credited in full to an
\* endpoint whose old credit decayed
C14_Witness ==
    /\ ReportedKnown /\ ~ReportedBad
    /\ Positive(prev.reqEvapRate) /\ RLt(prev.reqEvapRate, One)
    /\ Positive(PosBefore) /\ Positive(prev.posReinforce)
    /\ PosAfter = RAdd(RMul(PosBefore, RSub(One, prev.reqEvapRate)),
                       RDiv(prev.posReinforce, RAdd(last.latency, Epsilon)))

\* the last operation was a weighted pick on a service whose total weight was
\* 0: baseWeight = 0 and every latency.pos = 0
PickedAtZeroWeight ==
    /\ last.op = "PickEndpoint"
    /\ last.path = "weighted"
    /\ prev.baseWeight = Zero
    /\ \A i \in 1..Len(prev.services[last.service]) :
          prev.services[last.service][i].Pheromones["latency"].Pos = Zero

\* C15 as claimed: when the total weight of a non-empty service is 0 and no
\* forced exploration applies, PickEndpoint returns the last endpoint in
\* insertion order.
C15_ZeroWeightPicksLast ==
    PickedAtZeroWeight =>
        last.addr = prev.services[last.service][
                        Len(prev.services[last.service])].Address

\* C15 as amended: in that case PickEndpoint returns the first endpoint in
\* insertion order (r = 0 and the first cumulative weight is 0, so r <= cum
\* holds in the first round of the loop).
C15_ZeroWeightPicksFirst ==
    PickedAtZeroWeight =>
        /\ ~last.err
        /\ last.addr = prev.services[last.service][1].Address

\* a service with the endpoints A and B, in that order, at total weight 0
\* returned A
C15_Witness ==
    /\ PickedAtZeroWeight
    /\ Len(prev.services[last.service]) = 2
    /\ prev.services[last.service][1].Address = "A"
    /\ prev.services[last.service][2].Address = "B"
    /\ last.addr = "A"

\* the draw of rand.Float64() in the middle of the interval of endpoint i
MidDraw(weights, i) ==
    RDiv(RMul(RAdd(Cum(weights, i - 1), Cum(weights, i)), R(1, 2)),
         Cum(weights, Len(weights)))

\* C16: with baseWeight > 0, every endpoint of every non-empty service,
\* whatever its pheromones, has a strictly positive weight and a non-empty
\* interval of draws for which PickEndpoint returns it.
C16_EveryEndpointCanBePicked ==
    Positive(baseWeight) =>
        \A s \in DOMAIN services :
            LET weights == Weights(services[s])
            IN  /\ \A i \in 1..Len(weights) : Positive(weights[i])
                /\ \A i \in 1..Len(weights) :
                      /\ RLe(Zero, MidDraw(weights, i))
                      /\ RLt(MidDraw(weights, i), One)
                      /\ Sample(weights, MidDraw(weights, i)) = i

\* the endpoints of the service of the last pick that were not terrible
NotTerrible ==
    {i \in 1..Len(prev.services[last.service]) :
        RLe(prev.services[last.service][i].Pheromones["error"].Neg,
            prev.exploreNegThreshold)}

\* the last pick was due for forced exploration
ExplorationDue ==
    IF prev.exploreEveryN > 0
    THEN pickCount[last.service] % prev.exploreEveryN = 0
    ELSE FALSE

\* C17: a pick is a forced exploration exactly when exploreEveryN > 0 and the
\* service's pick count is a multiple of it; such a pick returns an endpoint
\* with error.neg <= exploreNegThreshold whenever there is one, and an
\* endpoint above the threshold only when every endpoint is above it.
C17_ExplorationAvoidsTerrible ==
    last.op = "PickEndpoint" /\ ~last.err =>
        /\ last.path = "explore" <=> ExplorationDue
        /\ last.path = "explore" =>
              \E i \in (IF NotTerrible # {} THEN NotTerrible
                        ELSE 1..Len(prev.services[last.service])) :
                  prev.services[last.service][i].Address = last.addr

\* a forced exploration of a service with a terrible endpoint and one that is
\* not
C17_Witness ==
    /\ last.op = "PickEndpoint"
    /\ last.path = "explore"
    /\ NotTerrible # {}
    /\ NotTerrible # 1..Len(prev.services[last.service])
    /\ \E i \in NotTerrible : prev.services[last.service][i].Address = last.addr

InUnit(x) == RLe(Zero, x) /\ RLe(x, One)
\* the point of [0, 1], and of [0, +oo), nearest to x
NearestInUnit(x) == IF RLt(x, Zero) THEN Zero ELSE IF RLt(One, x) THEN One ELSE x
NearestNonNegative(x) == IF RLt(x, Zero) THEN Zero ELSE x

\* C18: whatever the setters were called with, evaporationRate, reqEvapRate
\* and alphaBad are in [0, 1], baseWeight, posReinforce, negReinforce,
\* exploreNegThreshold and slowThresholdSec are >= 0 and exploreEveryN is an
\* integer >= 0; a setter stores an argument of the domain unchanged and any
\* other argument as the nearest bound.
C18_ConfigurationInDomain ==
    /\ InUnit(evaporationRate) /\ InUnit(reqEvapRate) /\ InUnit(alphaBad)
    /\ RLe(Zero, baseWeight) /\ RLe(Zero, posReinforce) /\ RLe(Zero, negReinforce)
    /\ RLe(Zero, exploreNegThreshold) /\ RLe(Zero, slowThresholdSec)
    /\ exploreEveryN \in Nat
    /\ last.op = "SetRequestEvapRate" => reqEvapRate = NearestInUnit(last.r)
    /\ last.op = "SetBadPosDecay" => alphaBad = NearestInUnit(last.alpha)
    /\ last.op = "SetBaseWeight" => baseWeight = NearestNonNegative(last.w)
    /\ last.op = "SetPosNegScale" =>
          /\ posReinforce = NearestNonNegative(last.kpos)
          /\ negReinforce = NearestNonNegative(last.kneg)
    /\ last.op = "SetSlowThresholdSec" =>
          slowThresholdSec = NearestNonNegative(last.threshold)
    /\ last.op = "SetPeriodicExploration" =>
          /\ exploreEveryN = IF last.everyN < 0 THEN 0 ELSE last.everyN
          /\ exploreNegThreshold = NearestNonNegative(last.negThreshold)

\* a rate above 1 was stored as 1
C18_Witness ==
    /\ last.op = "SetRequestEvapRate"
    /\ RLt(One, last.r)
    /\ reqEvapRate = One

(***************************************************************************)
(* C19.  The lifetime of the background evaporator is the router's: once   *)
(* the router is torn down, evaporateLoop begins no other evaporateOnce.   *)
(* (The code has no teardown: evaporateLoop ranges over its ticker for as  *)
(* long as the process lives.)                                             *)
(***************************************************************************)
C19_NoEvaporationAfterTeardown ==
    [][destroyed => calls'.evap = calls.evap]_vars

(***************************************************************************)
(* C20.  Mutual exclusion on the state of the router.  A goroutine in the  *)
(* section of AddService, ReportResult, evaporateOnce or a setter, or in   *)
(* the locked part of PickEndpoint, holds mu as the only writer, and no    *)
(* reader holds it; PheromoneSnapshot reads while it holds mu as a reader; *)
(* and the table, the pick counters and the configuration change only in a *)
(* step of the goroutine that holds mu as the writer.                      *)
(***************************************************************************)
InWriteSection(t) == pc[t] \in {"locked", "picking"}

InReadSection == pc["monitor"] \in {"range", "pos", "neg"}

MutualExclusion ==
    /\ \A t \in Writers : InWriteSection(t) => mu.writer = t
    /\ InReadSection => "monitor" \in mu.readers
    /\ mu.writer # NoThread => mu.readers = {}
    /\ \A t, u \in Writers : InWriteSection(t) /\ InWriteSection(u) => t = u
    /\ \A t \in Writers : ~(InWriteSection(t) /\ InReadSection)

AccessInsideSection ==
    /\ router' # router =>
          /\ mu.writer \in Writers
          /\ InWriteSection(mu.writer)
          /\ pc'[mu.writer] # pc[mu.writer] \/ prog'[mu.writer] # prog[mu.writer]
    /\ rd' # rd /\ pc["monitor"] \in {"range", "pos", "neg"} =>
          "monitor" \in mu.readers /\ mu.writer = NoThread
    /\ \A t \in Callers :
          pk'[t].snaps # <<>> /\ pk[t].snaps = <<>> => mu.writer = t

C20_MutualExclusion == [][MutualExclusion' /\ AccessInsideSection]_vars

\* the evaporator is in the middle of its writes, a caller that has released
\* mu samples from its copies, and the monitor waits for mu
C20_Witness ==
    /\ pc["evaporateLoop"] = "locked"
    /\ prog["evaporateLoop"] # <<>>
    /\ mu.writer = "evaporateLoop"
    /\ pc["worker"] = "sampling"
    /\ pc["monitor"] = "rlock"

(***************************************************************************)
(* C21.  The values one PickEndpoint call weighs come from one state       *)
(* between complete mutations.  The step that copies them finds no writer  *)
(* in the middle of its writes and the table as the last complete          *)
(* operation left it, and it copies every address, latency.pos, error.neg  *)
(* and baseWeight of that state; the address returned after the Unlock is  *)
(* the one the sampling loop finds for the weights of those copies,        *)
(* whatever was written in between.                                        *)
(***************************************************************************)
\* the weights of the copies a pick holds
CopiedWeights(p) ==
    [i \in 1..Len(p.snaps) |->
        RDiv(RAdd(p.snaps[i].pos, p.baseWeight), RAdd(One, p.snaps[i].neg))]

BetweenMutations ==
    /\ \A u \in Writers : pc[u] # "locked"
    /\ services = lastCommitted

C21_PickWeighsOneState ==
    [][\A t \in Callers :
          /\ pc[t] = "picking" /\ pc'[t] = "sampling" =>
                /\ BetweenMutations
                /\ pk'[t].snaps = Snaps(services[pk[t].service])
                /\ pk'[t].baseWeight = baseWeight
          /\ pc[t] = "sampling" /\ pc'[t] = "idle" =>
                \E u \in Draws :
                    pk'[t].addr
                        = pk[t].snaps[Sample(CopiedWeights(pk[t]), u)].addr]_vars

\* a pick is about to sample, and since it released mu a setter has changed
\* baseWeight and a report has changed the table
C21_Witness ==
    \E t \in Callers :
        /\ pc[t] = "sampling"
        /\ pk[t].baseWeight # baseWeight
        /\ BetweenMutations
        /\ pk[t].snaps # Snaps(services[pk[t].service])

(***************************************************************************)
(* C22.  Concurrent reports and evaporations lose no update.  A report or  *)
(* an evaporation that gets mu finds the table as the last complete        *)
(* operation left it, and when it has released mu the table is the one the *)
(* operation makes of the table it found when run alone: the table after   *)
(* any number of them is the table after the same calls one at a time, in  *)
(* the order in which they got mu.                                         *)
(***************************************************************************)
NoWriterInSection == \A u \in Writers : pc[u] # "locked"

SerialEffect ==
    NoWriterInSection =>
        /\ last.op = "ReportResult" =>
              services = Reinforce(Prelude(prev.services), last.service,
                                   last.endpoint, last.latency, last.success)
        /\ last.op = "evaporateOnce" =>
              services = Decay(prev.services, RSub(One, prev.evaporationRate))

StartsFromCommitted ==
    \A u \in Writers : pc[u] = "locked" => prev.services = lastCommitted

C22_NoLostUpdate == SerialEffect /\ StartsFromCommitted

\* two reports and an evaporation are complete, the last of them a report on
\* a registered endpoint that found pheromone left by the others
C22_Witness ==
    /\ NoWriterInSection
    /\ calls.report = 2
    /\ calls.evap = 1
    /\ last.op = "ReportResult"
    /\ SomePheromone(prev.services)
    /\ services # prev.services

(***************************************************************************)
(* C23.  Background decay is live.  Once the callers report and register   *)
(* no more, and while a tick of the ticker is left, evaporateLoop          *)
(* completes another evaporateOnce without any call of the program, and    *)
(* every pheromone value that was strictly positive is strictly smaller    *)
(* after it.                                                               *)
(***************************************************************************)
\* the callers have made their calls, and none of them is writing
Quiet ==
    /\ calls.add + calls.set + calls.report + calls.evap + calls.pick
          + calls.snapshot + calls.write >= MaxCalls
    /\ \A t \in Callers : pc[t] # "locked"

\* every value that was positive in before is smaller in after
Decreased(before, after) ==
    /\ DOMAIN after = DOMAIN before
    /\ \A s \in DOMAIN before :
          /\ Len(after[s]) = Len(before[s])
          /\ \A i \in 1..Len(before[s]) : \A c \in Channels :
                /\ Positive(before[s][i].Pheromones[c].Pos) =>
                      RLt(after[s][i].Pheromones[c].Pos,
                          before[s][i].Pheromones[c].Pos)
                /\ Positive(before[s][i].Pheromones[c].Neg) =>
                      RLt(after[s][i].Pheromones[c].Neg,
                          before[s][i].Pheromones[c].Neg)

\* the tick number m is complete and has made every positive value smaller
TickDone(m) ==
    /\ calls.evap = m
    /\ pc["evaporateLoop"] = "idle"
    /\ last.op = "evaporateOnce"
    /\ Decreased(prev.services, services)

\* the callers are quiet after n ticks, and the rate of the ticks is positive
QuietAfter(n) == Quiet /\ calls.evap = n /\ RLt(Zero, evaporationRate)

C23_BackgroundDecayIsLive ==
    \A n \in 0..(MaxEvaps - 1) : QuietAfter(n) ~> TickDone(n + 1)

\* a tick has made positive pheromone smaller after the callers' last call
C23_Witness ==
    /\ Quiet
    /\ TickDone(calls.evap)
    /\ SomePheromone(prev.services)
    /\ services # prev.services

(***************************************************************************)
(* C24: a failure report and the selection weight                          *)
(***************************************************************************)
\* the selection weight of endpoint i of service s in the router state st
WeightIn(st, s, i) ==
    RDiv(RAdd(st.services[s][i].Pheromones["latency"].Pos, st.baseWeight),
         RAdd(One, st.services[s][i].Pheromones["error"].Neg))

\* the last operation was a failure report on a registered endpoint, with
\* negReinforce > 0 and reqEvapRate = 0
FailureReported ==
    /\ ReportedKnown
    /\ ~last.success
    /\ Positive(prev.negReinforce)
    /\ prev.reqEvapRate = Zero

\* error.neg of a cold endpoint after n failures with the default negReinforce
\* and evaporationRate = 0: n additions of 1.0
NegAfterFailures(n) == RMul(R(n, 1), One)

\* the share of the total weight of a cold endpoint after n failures beside a
\* cold peer, with the default baseWeight
ShareAfterFailures(n) ==
    LET wB == RDiv(R(10, 100), RAdd(One, NegAfterFailures(n)))
        wA == RDiv(R(10, 100), One)
    IN  RDiv(wB, RAdd(wA, wB))

ShareAfterHundredFailures == ShareAfterFailures(100)

\* C24 as claimed: a failure report on a registered endpoint e (negReinforce
\* > 0, reqEvapRate = 0) strictly decreases the selection weight of e whenever
\* that weight is positive and leaves the weight of every other endpoint
\* unchanged; with the default parameters, 100 failures on a cold endpoint
\* leave it at most 5% of the total weight beside a cold peer.
C24_FailureLowersWeight ==
    /\ RLe(ShareAfterHundredFailures, R(5, 100))
    /\ FailureReported =>
          /\ Positive(WeightIn(prev, last.service, TargetIndex)) =>
                RLt(WeightIn(State, last.service, TargetIndex),
                    WeightIn(prev, last.service, TargetIndex))
          /\ \A s \in DOMAIN prev.services :
                \A i \in 1..Len(prev.services[s]) :
                    (s # last.service \/ i # TargetIndex) =>
                        WeightIn(State, s, i) = WeightIn(prev, s, i)

\* the parts of C24 that hold of every run: the other endpoints keep their
\* weights, the failing endpoint's weight decreases when its latency.pos is
\* not negative, and the share after 100 failures is 1/102
C24_Sound ==
    /\ ShareAfterHundredFailures = R(1, 102)
    /\ FailureReported =>
          /\ (/\ Positive(WeightIn(prev, last.service, TargetIndex))
              /\ RLe(Zero, PosBefore)) =>
                RLt(WeightIn(State, last.service, TargetIndex),
                    WeightIn(prev, last.service, TargetIndex))
          /\ \A s \in DOMAIN prev.services :
                \A i \in 1..Len(prev.services[s]) :
                    (s # last.service \/ i # TargetIndex) =>
                        WeightIn(State, s, i) = WeightIn(prev, s, i)

(***************************************************************************)
(* C25: the defaults of NewSwarmRoute                                      *)
(***************************************************************************)
\* no call has been made on the router yet
Fresh == last.op = "NewSwarmRoute"

\* C25: a freshly constructed router has no services and no pick counters, and
\* its parameters are the documented defaults: evaporationRate 0.05,
\* reqEvapRate 0, baseWeight 0.10, posReinforce 1.0, negReinforce 1.0,
\* exploreEveryN 0, exploreNegThreshold 3.0, slowThresholdSec 0, alphaBad 0.
C25_FreshRouterHasDefaults ==
    Fresh =>
        /\ DOMAIN services = {}
        /\ DOMAIN pickCount = {}
        /\ evaporationRate = R(5, 100)
        /\ reqEvapRate = R(0, 1)
        /\ baseWeight = R(10, 100)
        /\ posReinforce = R(1, 1)
        /\ negReinforce = R(1, 1)
        /\ exploreEveryN = 0
        /\ exploreNegThreshold = R(3, 1)
        /\ slowThresholdSec = R(0, 1)
        /\ alphaBad = R(0, 1)

\* the router as NewSwarmRoute returns it, before any call
C25_Witness ==
    /\ Fresh
    /\ calls.add + calls.set + calls.report + calls.evap + calls.pick
          + calls.snapshot + calls.write = 0

(***************************************************************************)
(* C26: the weighted draw                                                  *)
(***************************************************************************)
\* the last operation was a pick on the weighted path
PickedWeighted == last.op = "PickEndpoint" /\ last.path = "weighted"

\* w_1 + ... + w_j for the endpoints of service s in the router state st
RECURSIVE CumWeightIn(_, _, _)
CumWeightIn(st, s, j) ==
    IF j = 0 THEN Zero ELSE RAdd(CumWeightIn(st, s, j - 1), WeightIn(st, s, j))

\* the endpoints whose cumulative weight reaches r = draw * W
Reaching(st, s, draw) ==
    LET n == Len(st.services[s])
        r == RMul(draw, CumWeightIn(st, s, n))
    IN  {j \in 1..n : RLe(r, CumWeightIn(st, s, j))}

\* C26: on the weighted path, with the weights (latency.pos + baseWeight) /
\* (1 + error.neg), their total W and the draw r = rand.Float64() * W,
\* PickEndpoint returns the first endpoint in insertion order whose cumulative
\* weight is >= r, and the last endpoint if no cumulative weight reaches r.
C26_PickReturnsFirstReaching ==
    PickedWeighted =>
        LET eps == prev.services[last.service]
            reaching == Reaching(prev, last.service, last.draw)
        IN  /\ ~last.err
            /\ \A j \in reaching :
                  (\A i \in reaching : j <= i) => last.addr = eps[j].Address
            /\ reaching = {} => last.addr = eps[Len(eps)].Address

\* a pick that passed over the first endpoint, whose cumulative weight was
\* below r, and returned the second
C26_Witness ==
    /\ PickedWeighted
    /\ Len(prev.services[last.service]) = 2
    /\ prev.services[last.service][1].Address = "A"
    /\ prev.services[last.service][2].Address = "B"
    /\ Positive(CumWeightIn(prev, last.service, 2))
    /\ Reaching(prev, last.service, last.draw) = {2}
    /\ last.addr = "B"

\* a pick whose cumulative weights never reached r returned the last endpoint
C26_FallbackTaken ==
    /\ PickedWeighted
    /\ Len(prev.services[last.service]) = 2
    /\ prev.services[last.service][1].Address = "A"
    /\ Reaching(prev, last.service, last.draw) = {}
    /\ last.addr = "B"

(***************************************************************************)
(* C27: the pick counter and the turn of forced exploration                *)
(***************************************************************************)
\* the last operation was a pick that returned an endpoint
PickedOk == last.op = "PickEndpoint" /\ ~last.err

\* the counter of service s in the map counts; a missing key reads 0
CountIn(counts, s) == IF s \in DOMAIN counts THEN counts[s] ELSE 0

\* C27: every successful PickEndpoint(s) increases the pick counter of s by
\* exactly 1, on the weighted path and on the forced-exploration path alike,
\* and the k-th successful pick of s since the router was built takes the
\* forced-exploration path if and only if exploreEveryN = N > 0 and k is a
\* multiple of N; with exploreEveryN = 0 no pick takes that path.
C27_CounterDrivesExploration ==
    /\ \A s \in ServiceNames : CountIn(pickCount, s) = calls.picked[s]
    /\ PickedOk =>
          LET k == calls.picked[last.service]
              N == prev.exploreEveryN
          IN  /\ last.path \in {"weighted", "explore"}
              /\ pickCount[last.service]
                    = CountIn(prev.pickCount, last.service) + 1
              /\ \A s \in ServiceNames \ {last.service} :
                    CountIn(pickCount, s) = CountIn(prev.pickCount, s)
              /\ N > 0 => (last.path = "explore" <=> k % N = 0)
              /\ N = 0 => last.path = "weighted"

\* with exploreEveryN = 2 the second successful pick of a service explored,
\* after a first one that took the weighted path
C27_Witness ==
    /\ PickedOk
    /\ prev.exploreEveryN = 2
    /\ calls.picked[last.service] = 2
    /\ CountIn(prev.pickCount, last.service) = 1
    /\ last.path = "explore"

(***************************************************************************)
(* C28: the bad branch of ReportResult                                     *)
(***************************************************************************)
\* C28: a bad report on a registered endpoint e sets e.latency.pos to
\* pos_before * (1 - alphaBad), which is pos_before when alphaBad = 0, and
\* sets e.error.neg to neg_before + negReinforce when the call failed and to
\* (neg_before + negReinforce) * (1 - evaporationRate) when it was a slow
\* success; pos_before and neg_before are the values after the per-request
\* prelude.
C28_BadReportUpdate ==
    ReportedKnown /\ ReportedBad =>
        LET pos0 == AfterPrelude(PosBefore)
            neg0 == AfterPrelude(NegBefore)
        IN  /\ PosAfter = RMul(pos0, RSub(One, prev.alphaBad))
            /\ prev.alphaBad = Zero => PosAfter = pos0
            /\ ~last.success => NegAfter = RAdd(neg0, prev.negReinforce)
            /\ last.success =>
                  NegAfter = RMul(RAdd(neg0, prev.negReinforce),
                                  RSub(One, prev.evaporationRate))

\* a slow success for which the order matters: forgiving first and adding
\* negReinforce afterwards would have left another value
C28_Witness ==
    /\ ReportedKnown /\ ReportedBad
    /\ last.success
    /\ Positive(NegBefore)
    /\ NegAfter # RAdd(RMul(AfterPrelude(NegBefore),
                            RSub(One, prev.evaporationRate)),
                       prev.negReinforce)

\* a failure that took a part (not all) of a positive latency.pos away
C28_PosDecayed ==
    /\ ReportedKnown /\ ReportedBad
    /\ ~last.success
    /\ Positive(prev.alphaBad) /\ RLt(prev.alphaBad, One)
    /\ Positive(PosBefore)
    /\ Positive(PosAfter) /\ RLt(PosAfter, PosBefore)

(***************************************************************************)
(* C30: what ReportResult leaves alone                                     *)
(***************************************************************************)
\* the configuration fields of a router state
ConfigOf(st) ==
    <<st.evaporationRate, st.posReinforce, st.negReinforce, st.reqEvapRate,
      st.baseWeight, st.exploreEveryN, st.exploreNegThreshold,
      st.slowThresholdSec, st.alphaBad>>

\* C30: with reqEvapRate = 0, ReportResult(s, a, ...) on a registered endpoint
\* changes only latency.pos and error.neg of that one endpoint: every other
\* endpoint of s, every endpoint of every other service, the target's
\* latency.neg and error.pos, its address, all pick counters and all
\* configuration fields are unchanged.
C30_ReportFrame ==
    (ReportedKnown /\ prev.reqEvapRate = Zero) =>
        /\ DOMAIN services = DOMAIN prev.services
        /\ \A s \in DOMAIN prev.services :
              /\ Len(services[s]) = Len(prev.services[s])
              /\ \A i \in 1..Len(prev.services[s]) :
                    IF s = last.service /\ i = TargetIndex
                    THEN /\ services[s][i].Address = prev.services[s][i].Address
                         /\ DOMAIN services[s][i].Pheromones = Channels
                         /\ services[s][i].Pheromones["latency"].Neg
                               = prev.services[s][i].Pheromones["latency"].Neg
                         /\ services[s][i].Pheromones["error"].Pos
                               = prev.services[s][i].Pheromones["error"].Pos
                    ELSE services[s][i] = prev.services[s][i]
        /\ pickCount = prev.pickCount
        /\ ConfigOf(State) = ConfigOf(prev)

\* a report that changed both values of the first of two endpoints registered
\* under one address, in a router that holds a pick counter
C30_Witness ==
    /\ ReportedKnown /\ prev.reqEvapRate = Zero
    /\ PosAfter # PosBefore
    /\ NegAfter # NegBefore
    /\ Len(prev.services[last.service]) = 2
    /\ TargetIndex = 1
    /\ prev.services[last.service][2].Address = last.endpoint
    /\ CountIn(pickCount, last.service) > 0

(***************************************************************************)
(* C29: the lock is held inside the operations only, and every call ends   *)
(***************************************************************************)
\* goroutine t holds sr.mu, for writing or for reading
HoldsLock(t) == mu.writer = t \/ t \in mu.readers

\* goroutine t is in no call of the router: a caller between two calls,
\* evaporateLoop waiting for the next tick
AtRest(t) == pc[t] \in {"idle", "returned"}

InCall(t) == ~AtRest(t)

\* sr.mu is held by goroutines inside an operation only, and not by a
\* PickEndpoint that has passed its Unlock and draws from its copies
LockOnlyInsideCall ==
    /\ mu.writer \in Writers \cup {NoThread}
    /\ mu.readers \subseteq {"monitor"}
    /\ \A t \in Threads : AtRest(t) => ~HoldsLock(t)
    /\ \A t \in Callers : pc[t] = "sampling" => ~HoldsLock(t)

\* no goroutine is inside a call
AllAtRest == \A t \in Threads : AtRest(t)

\* every call that has started is completed; it follows from []<>AllAtRest
EveryCallEnds == \A t \in Threads : InCall(t) ~> AtRest(t)

\* C29: every operation releases sr.mu before it returns (PickEndpoint on
\* each of its exits), evaporateLoop holds it only while evaporateOnce runs
\* and never while it waits for the next tick, and under fair scheduling every
\* call that has started is completed: again and again no goroutine is inside
\* a call.
C29_LockReleasedAndCallsEnd ==
    /\ []LockOnlyInsideCall
    /\ []<>AllAtRest

\* evaporateLoop has run evaporateOnce and waits for the next tick, the caller
\* has an endpoint from a pick, the monitor has its snapshot, and sr.mu is free
C29_Witness ==
    /\ calls.evap > 0
    /\ calls.pick > 0 /\ pk["worker"].addr # ""
    /\ calls.snapshot > 0 /\ pc["monitor"] = "returned"
    /\ \A t \in Threads : AtRest(t)
    /\ LockFree

\* a PickEndpoint that found no endpoints has returned, and sr.mu is free
C29_FailedPickReturned ==
    /\ pk["worker"].err
    /\ AtRest("worker")
    /\ LockFree

\* false of the fair runs: some step is the return of PickEndpoint from its
\* forced exploration, the third of its exits
ExploringPickNeverReturns ==
    [][~(/\ pc["worker"] = "picking"
         /\ pc'["worker"] = "idle"
         /\ pk'["worker"].addr # "")]_vars

(***************************************************************************)
(* C31: AddService replaces a record in one step                           *)
(***************************************************************************)
\* goroutine t is inside AddService, between its Lock and its Unlock
AddInProgress(t) == pc[t] = "locked" /\ mu.writer = t /\ last.op = "AddService"

\* the table with the record of the AddService in progress in place
Replaced == (last.name :> NewEndpoints(last.endpoints)) @@ prev.services

\* C31: AddService(name, A) replaces the record of name in one atomic step
\* and touches nothing else: the other services, the pick counters and the
\* configuration are unchanged, and while it runs no PickEndpoint copies the
\* table, no PheromoneSnapshot reads it and no ReportResult or evaporateOnce
\* enters, so that they see the complete old list or the complete new list,
\* with all pheromones at zero, and nothing in between.
C31_AddServiceIsAtomic ==
    [][\A t \in Writers :
          AddInProgress(t) =>
              /\ services \in {prev.services, Replaced}
              /\ services' \in {prev.services, Replaced}
              /\ pickCount' = prev.pickCount
              /\ config' = config
              /\ mu'.writer \in {t, NoThread}
              /\ mu'.readers = {}
              /\ \A u \in Callers : pk'[u].snaps \in {pk[u].snaps, <<>>}
              /\ pc'["monitor"] \notin {"range", "pos", "neg"}
              /\ pc'[t] = "idle" => services' = Replaced]_vars

\* a service that had accumulated pheromone has just been replaced by an
\* AddService that still holds the lock, while a PickEndpoint that copied the
\* old values before it draws from its copies
C31_Witness ==
    /\ AddInProgress("caller")
    /\ prog["caller"] = <<>>
    /\ last.name \in DOMAIN prev.services
    /\ services = Replaced
    /\ services # prev.services
    /\ pc["worker"] = "sampling"
    /\ pk["worker"].service = last.name
    /\ \E i \in 1..Len(pk["worker"].snaps) : pk["worker"].snaps[i].pos # Zero

(***************************************************************************)
(* C32: the pick counter is monotonic                                      *)
(***************************************************************************)
\* C32: no operation decreases or removes a pick counter; AddService on a
\* registered service neither resets nor removes its counter, so the counter
\* goes on counting the picks since the router was built and the turn of the
\* forced exploration is taken from that count.
C32_PickCounterMonotonic ==
    /\ DOMAIN prev.pickCount \subseteq DOMAIN pickCount
    /\ \A s \in ServiceNames : CountIn(prev.pickCount, s) <= CountIn(pickCount, s)
    /\ last.op = "AddService" => pickCount = prev.pickCount
    /\ PickedOk =>
          /\ pickCount[last.service] = calls.picked[last.service]
          /\ last.path = "explore" <=>
                /\ prev.exploreEveryN > 0
                /\ calls.picked[last.service] % prev.exploreEveryN = 0

\* a service with a pick counter of 1 was registered again and its counter is
\* still 1
C32_Witness ==
    /\ last.op = "AddService"
    /\ last.name \in DOMAIN prev.services
    /\ CountIn(prev.pickCount, last.name) = 1
    /\ CountIn(pickCount, last.name) = 1

\* the second pick of the only service of a router, which was registered twice
C32_PickedTwiceRegisteredTwice ==
    /\ PickedOk
    /\ calls.add = 2 /\ calls.pick = 2
    /\ DOMAIN services = {last.service}
    /\ pickCount[last.service] = 2

(***************************************************************************)
(* C33: a failed PickEndpoint changes nothing                              *)
(***************************************************************************)
\* the last operation was a PickEndpoint that returned the no-endpoints error
PickFailedLast == last.op = "PickEndpoint" /\ last.err

\* C33: a PickEndpoint that fails with no endpoints leaves the whole router
\* state unchanged: it neither increments nor creates a pick counter for the
\* name, creates no service record, and changes no pheromone and no
\* configuration field.
C33_FailedPickChangesNothing ==
    PickFailedLast =>
        /\ last.addr = ""
        /\ DOMAIN pickCount = DOMAIN prev.pickCount
        /\ pickCount = prev.pickCount
        /\ DOMAIN services = DOMAIN prev.services
        /\ services = prev.services
        /\ ConfigOf(State) = ConfigOf(prev)
        /\ State = prev

\* a failed pick on a name that was never registered, in a router that holds
\* another service with pheromone and a pick counter
C33_Witness ==
    /\ PickFailedLast
    /\ last.service \notin DOMAIN services
    /\ last.service \notin DOMAIN pickCount
    /\ DOMAIN pickCount # {}
    /\ SomePheromone(services)

\* a failed pick on a service registered with an empty list of endpoints
C33_EmptyListFailed ==
    /\ PickFailedLast
    /\ last.service \in DOMAIN services
    /\ last.service \notin DOMAIN pickCount

(***************************************************************************)
(* C34: what a successful PickEndpoint leaves alone                        *)
(***************************************************************************)
\* C34: a successful PickEndpoint(s) changes nothing but the pick counter of
\* s: the pheromones, the endpoint lists, the configuration fields and the
\* pick counters of the other services are the same after the call as before,
\* on the weighted path and on the forced-exploration path.
C34_PickFrame ==
    PickedOk =>
        /\ last.path \in {"weighted", "explore"}
        /\ services = prev.services
        /\ ConfigOf(State) = ConfigOf(prev)
        /\ DOMAIN pickCount = DOMAIN prev.pickCount \cup {last.service}
        /\ \A s \in DOMAIN pickCount \ {last.service} :
              pickCount[s] = prev.pickCount[s]
        /\ State = [prev EXCEPT !.pickCount = pickCount]

\* a pick on the weighted path in a router where another service has a pick
\* counter
C34_Witness ==
    /\ PickedOk
    /\ last.path = "weighted"
    /\ \E s \in DOMAIN prev.pickCount : s # last.service /\ pickCount[s] > 0

\* a forced-exploration pick on a service that holds pheromone
C34_ExploredWithPheromone ==
    /\ PickedOk
    /\ last.path = "explore"
    /\ SomePheromone(services)

(***************************************************************************)
(* C35: the address a pick returns                                         *)
(***************************************************************************)
\* the addresses of a list of endpoints
AddressesOf(eps) == {eps[i].Address : i \in 1..Len(eps)}

\* goroutine t copies the endpoints of its service in this step, under the lock
CopiesTable(t) == pc[t] = "picking" /\ pc'[t] = "sampling"

\* goroutine t returns an endpoint in this step: from the forced exploration
\* with the lock held, or from the sampling after the Unlock
ReturnsExplored(t) == pc[t] = "picking" /\ pc'[t] = "idle" /\ ~pk'[t].err

ReturnsSampled(t) == pc[t] = "sampling" /\ pc'[t] = "idle"

\* the address returned is one of the list that PickEndpoint saw under the
\* lock, which the copies of the weighted path keep in their order
ReturnsSeenAddress(t) ==
    /\ CopiesTable(t) =>
          /\ mu.writer = t
          /\ Len(pk'[t].snaps) = Len(services[pk[t].service])
          /\ \A i \in 1..Len(pk'[t].snaps) :
                pk'[t].snaps[i].addr = services[pk[t].service][i].Address
    /\ ReturnsExplored(t) =>
          /\ mu.writer = t
          /\ pk'[t].addr \in AddressesOf(services[pk[t].service])
    /\ ReturnsSampled(t) =>
          /\ ~pk'[t].err
          /\ pk'[t].addr \in {pk[t].snaps[i].addr : i \in 1..Len(pk[t].snaps)}

\* C35 as claimed: the address returned by a successful PickEndpoint(s) is
\* the address of an endpoint that was in the list of s during the critical
\* section of that call, never the empty string and never an address that
\* belongs to another service only, even when AddService replaces the list of
\* s before the call returns.
C35_PickReturnsListedAddress ==
    [][\A t \in Callers :
          /\ ReturnsSeenAddress(t)
          /\ (ReturnsExplored(t) \/ ReturnsSampled(t)) => pk'[t].addr # ""]_vars

\* C35 as amended: the address returned by a successful PickEndpoint(s) is
\* the address of an endpoint that was in the list of s during the critical
\* section of that call, even when AddService replaces the list of s before
\* the call returns; it is the empty string when that endpoint was registered
\* under the empty string.
C35_PickReturnsSeenAddress ==
    [][\A t \in Callers : ReturnsSeenAddress(t)]_vars

\* a PickEndpoint has copied the endpoints A and B of its service and is about
\* to draw, and an AddService that has returned since has replaced the list
\* by one without them
C35_Witness ==
    /\ pc["worker"] = "sampling"
    /\ {pk["worker"].snaps[i].addr : i \in 1..Len(pk["worker"].snaps)} = {"A", "B"}
    /\ last.op = "AddService" /\ last.name = pk["worker"].service
    /\ pc["caller"] = "idle"
    /\ AddressesOf(services[pk["worker"].service]) = {""}

(***************************************************************************)
(* C36: endpoints of weight 0 on the weighted path                         *)
(***************************************************************************)
\* the total weight of the service of the last pick, and r = draw * total
TotalBefore == CumWeightIn(prev, last.service, Len(prev.services[last.service]))

DrawnBefore == RMul(last.draw, TotalBefore)

\* C36 as claimed: on the weighted path with total weight W > 0, PickEndpoint
\* never returns an endpoint whose own weight is 0, for every draw r in
\* [0, W), r = 0 included.
C36_NeverPicksZeroWeight ==
    (PickedWeighted /\ Positive(TotalBefore)) =>
        WeightIn(prev, last.service, last.index) # Zero

\* C36 as amended: on the weighted path with total weight W > 0, PickEndpoint
\* returns no endpoint whose own weight is 0 for a draw r in (0, W); it
\* returns an endpoint of weight 0 only for r = 0, and then only the first
\* endpoint in insertion order.
C36_ZeroWeightOnlyAtZeroDraw ==
    (PickedWeighted /\ Positive(TotalBefore)) =>
        /\ last.addr = prev.services[last.service][last.index].Address
        /\ WeightIn(prev, last.service, last.index) = Zero =>
              DrawnBefore = Zero /\ last.index = 1

\* a pick with r > 0 passed over a first endpoint of weight 0 and returned the
\* second
C36_Witness ==
    /\ PickedWeighted /\ Positive(TotalBefore)
    /\ Positive(DrawnBefore)
    /\ WeightIn(prev, last.service, 1) = Zero
    /\ last.index = 2

\* a pick with r = 0 returned a first endpoint of weight 0
C36_ZeroWeightPicked ==
    /\ PickedWeighted /\ Positive(TotalBefore)
    /\ DrawnBefore = Zero
    /\ WeightIn(prev, last.service, 1) = Zero
    /\ last.index = 1

(***************************************************************************)
(* C37: a report on an address registered more than once                   *)
(***************************************************************************)
\* the endpoints registered after the target under the reported address
LaterDuplicates ==
    {j \in (TargetIndex + 1)..Len(prev.services[last.service]) :
        prev.services[last.service][j].Address = last.endpoint}

\* endpoint i of the reported service as the per-request evaporation that
\* opens the report left it
EvaporatedBefore(i) ==
    LET ep == prev.services[last.service][i]
        factor == RSub(One, prev.reqEvapRate)
    IN  IF Positive(prev.reqEvapRate)
        THEN [Address |-> ep.Address,
              Pheromones |->
                 [c \in DOMAIN ep.Pheromones |->
                     [Pos |-> RMul(ep.Pheromones[c].Pos, factor),
                      Neg |-> RMul(ep.Pheromones[c].Neg, factor)]]]
        ELSE ep

\* C37: when a service was registered with the same address more than once,
\* ReportResult on that address updates exactly one endpoint, the first in
\* insertion order with that address; the later duplicates keep the
\* pheromones the per-request evaporation left them, untouched by the good or
\* bad update.
C37_ReportUpdatesFirstDuplicate ==
    (ReportedKnown /\ LaterDuplicates # {}) =>
        /\ Len(services[last.service]) = Len(prev.services[last.service])
        /\ services[last.service][TargetIndex] =
              IF ReportedBad
              THEN BadUpdate(EvaporatedBefore(TargetIndex), last.success)
              ELSE GoodUpdate(EvaporatedBefore(TargetIndex), last.latency)
        /\ \A i \in 1..Len(prev.services[last.service]) :
              i # TargetIndex => services[last.service][i] = EvaporatedBefore(i)

\* a report changed the first of two endpoints registered under one address
\* and left the second as the per-request evaporation had it, with other
\* values than the first
C37_Witness ==
    /\ ReportedKnown /\ LaterDuplicates # {}
    /\ TargetIndex = 1
    /\ services[last.service][1] # EvaporatedBefore(1)
    /\ services[last.service][2] = EvaporatedBefore(2)
    /\ services[last.service][2].Pheromones # services[last.service][1].Pheromones

(***************************************************************************)
(* C38: what a setter changes                                              *)
(***************************************************************************)
ConfigFields ==
    {"evaporationRate", "posReinforce", "negReinforce", "reqEvapRate",
     "baseWeight", "exploreEveryN", "exploreNegThreshold", "slowThresholdSec",
     "alphaBad"}

\* the configuration fields each setter assigns
SetterFields ==
    [SetRequestEvapRate |-> {"reqEvapRate"},
     SetBaseWeight |-> {"baseWeight"},
     SetPosNegScale |-> {"posReinforce", "negReinforce"},
     SetPeriodicExploration |-> {"exploreEveryN", "exploreNegThreshold"},
     SetSlowThresholdSec |-> {"slowThresholdSec"},
     SetBadPosDecay |-> {"alphaBad"}]

SetterCalled == last.op \in DOMAIN SetterFields

\* the argument of the last setter call was outside the range of its field
ArgumentClamped ==
    \/ last.op = "SetRequestEvapRate" /\ (RLt(last.r, Zero) \/ RLt(One, last.r))
    \/ last.op = "SetBaseWeight" /\ RLt(last.w, Zero)
    \/ last.op = "SetPosNegScale" /\ (RLt(last.kpos, Zero) \/ RLt(last.kneg, Zero))
    \/ last.op = "SetPeriodicExploration"
          /\ (last.everyN < 0 \/ RLt(last.negThreshold, Zero))
    \/ last.op = "SetSlowThresholdSec" /\ RLt(last.threshold, Zero)
    \/ last.op = "SetBadPosDecay" /\ (RLt(last.alpha, Zero) \/ RLt(One, last.alpha))

\* C38: every setter changes only the configuration fields it names
\* (SetPosNegScale: posReinforce and negReinforce; SetPeriodicExploration:
\* exploreEveryN and exploreNegThreshold; the others one field each): no
\* setter changes a pheromone, an endpoint list, a pick counter or another
\* configuration field, whether or not its argument had to be clamped.
C38_SetterFrame ==
    SetterCalled =>
        /\ services = prev.services
        /\ pickCount = prev.pickCount
        /\ \A f \in ConfigFields \ SetterFields[last.op] : State[f] = prev[f]

\* a setter whose argument had to be clamped changed its field in a router
\* that holds a pheromone and a pick counter
C38_Witness ==
    /\ SetterCalled /\ ArgumentClamped
    /\ \E f \in SetterFields[last.op] : State[f] # prev[f]
    /\ pickCount # <<>>
    /\ \E s \in DOMAIN services : \E i \in 1..Len(services[s]) :
          services[s][i].Pheromones["latency"].Pos # Zero

\* a setter whose argument was in range did the same
C38_UnclampedWitness ==
    /\ SetterCalled /\ ~ArgumentClamped
    /\ \E f \in SetterFields[last.op] : State[f] # prev[f]
    /\ pickCount # <<>>
    /\ \E s \in DOMAIN services : \E i \in 1..Len(services[s]) :
          services[s][i].Pheromones["latency"].Pos # Zero

(***************************************************************************)
(* C39: only AddService changes which services and endpoints exist         *)
(***************************************************************************)
\* the services of a table, the addresses of their endpoints in insertion
\* order, and the channels of each endpoint
ShapeOf(svcs) ==
    [s \in DOMAIN svcs |->
        [i \in 1..Len(svcs[s]) |->
            [Address |-> svcs[s][i].Address,
             Channels |-> DOMAIN svcs[s][i].Pheromones]]]

\* C39: only AddService changes which services and endpoints exist:
\* ReportResult, evaporateOnce (the function the background ticks call),
\* PickEndpoint, PheromoneSnapshot and the setters never add, remove or
\* reorder a service or an endpoint and never add or remove a channel of an
\* endpoint, so every endpoint has exactly the channels latency and error for
\* as long as its registration lives.
C39_OnlyAddServiceChangesShape ==
    /\ last.op # "AddService" => ShapeOf(services) = ShapeOf(prev.services)
    /\ \A s \in DOMAIN services : \A i \in 1..Len(services[s]) :
          DOMAIN services[s][i].Pheromones = Channels

\* a report changed the pheromones of the second of two endpoints, which had
\* been picked before, and the table kept its services, endpoints and channels
C39_Witness ==
    /\ ReportedKnown
    /\ Len(prev.services[last.service]) = 2
    /\ TargetIndex = 2
    /\ services # prev.services
    /\ ShapeOf(services) = ShapeOf(prev.services)
    /\ calls.pick > 0

\* an evaporation changed pheromones and the table kept its shape
C39_EvaporationWitness ==
    /\ last.op = "evaporateOnce"
    /\ services # prev.services
    /\ ShapeOf(services) = ShapeOf(prev.services)

\* a pick, a snapshot or a setter found endpoints and left the table alone
C39_ReadersWitness ==
    /\ last.op \in {"PickEndpoint", "PheromoneSnapshot"} \cup DOMAIN SetterFields
    /\ \E s \in DOMAIN services : Len(services[s]) = 2
    /\ services = prev.services

\* among goroutines, the ticks of evaporateLoop included: a step that changes
\* the shape of the table is the store of a goroutine inside AddService
C39_ShapeChangesInsideAddService ==
    [][ShapeOf(services') # ShapeOf(services) =>
          \E t \in Writers : AddInProgress(t)]_vars

====
